---- MODULE Spec2Model ----
(***************************************************************************)
(* A model of the SmartCashFlowManager backend: the ingestion pipeline of  *)
(* transaction_processor.py driven by the two loops of main.py, and the    *)
(* stand-alone polling script 1.py with its human-review escalation.       *)
(*                                                                         *)
(* Text is modelled as strings and searched character by character, the    *)
(* way Python's `in` and `re.search` do.  Amounts are held in thousandths  *)
(* of a rupee (float("12.5") is 12500), so sums are exact.                 *)
(***************************************************************************)
EXTENDS Integers, Sequences, FiniteSets, TLC

(***************************************************************************)
(* Bounds of the model.                                                    *)
(***************************************************************************)
\* number of raw messages that can ever arrive (ids 1..MaxRaw)
MaxRaw == 3
\* number of manual entries that can ever arrive (ids 101..100+MaxManual)
MaxManual == 1
\* calendar months the clock can advance through
MaxMonth == 2

(***************************************************************************)
(* Text helpers: str.lower(), `k in s`, character classes.                 *)
(***************************************************************************)
UpperChars == "ABCDEFGHIJKLMNOPQRSTUVWXYZ"
LowerChars == "abcdefghijklmnopqrstuvwxyz"
Digits == "0123456789"

CharAt(s, i) == SubSeq(s, i, i)

IndexIn(alphabet, c) ==
    IF \E i \in 1..Len(alphabet) : CharAt(alphabet, i) = c
    THEN CHOOSE i \in 1..Len(alphabet) : CharAt(alphabet, i) = c
    ELSE 0

IsDigit(c) == IndexIn(Digits, c) > 0
IsAlpha(c) == IndexIn(UpperChars, c) > 0 \/ IndexIn(LowerChars, c) > 0
IsSpace(c) == c = " "
\* \w of the regular expressions: letters, digits and the underscore
IsWordChar(c) == IsAlpha(c) \/ IsDigit(c) \/ c = "_"

LowerChar(c) ==
    IF IndexIn(UpperChars, c) > 0 THEN CharAt(LowerChars, IndexIn(UpperChars, c)) ELSE c

RECURSIVE MapLower(_, _)
MapLower(s, i) ==
    IF i > Len(s) THEN "" ELSE LowerChar(CharAt(s, i)) \o MapLower(s, i + 1)

\* str.lower()
Lower(s) == MapLower(s, 1)

\* k in s
Contains(s, k) ==
    \E i \in 1..(Len(s) - Len(k) + 1) : SubSeq(s, i, i + Len(k) - 1) = k

RECURSIVE FilterChars(_, _, _)
\* the characters of s from position i on, without the character drop
FilterChars(s, i, drop) ==
    IF i > Len(s) THEN ""
    ELSE (IF CharAt(s, i) = drop THEN "" ELSE CharAt(s, i)) \o FilterChars(s, i + 1, drop)

RECURSIVE KeepWordAndSpace(_, _)
KeepWordAndSpace(s, i) ==
    IF i > Len(s) THEN ""
    ELSE (IF IsWordChar(CharAt(s, i)) \/ IsSpace(CharAt(s, i)) THEN CharAt(s, i) ELSE "")
         \o KeepWordAndSpace(s, i + 1)

\* re.sub(r'[^\w\s]', '', str(text)).lower()
clean_text(text) == Lower(KeepWordAndSpace(text, 1))

RECURSIVE RunEnd(_, _, _)
\* last position of the longest run of digits (kind "d") or of letters and
\* spaces (kind "a") that starts at position i of s; i - 1 when it is empty
RunEnd(s, i, kind) ==
    IF i <= Len(s) /\ (IF kind = "d" THEN IsDigit(CharAt(s, i))
                       ELSE IsAlpha(CharAt(s, i)) \/ IsSpace(CharAt(s, i)))
    THEN RunEnd(s, i + 1, kind)
    ELSE i - 1

RECURSIVE Strip(_)
\* str.strip() for spaces
Strip(s) ==
    IF Len(s) > 0 /\ IsSpace(CharAt(s, 1)) THEN Strip(SubSeq(s, 2, Len(s)))
    ELSE IF Len(s) > 0 /\ IsSpace(CharAt(s, Len(s))) THEN Strip(SubSeq(s, 1, Len(s) - 1))
    ELSE s

SafeChar(s, i) == IF i >= 1 /\ i <= Len(s) THEN SubSeq(s, i, i) ELSE ""
SafeSub(s, i, j) == IF i >= 1 /\ j <= Len(s) /\ i <= j THEN SubSeq(s, i, j) ELSE ""

(***************************************************************************)
(* ExtractionEngine: parse_transaction_details.                            *)
(***************************************************************************)
\* (INR|Rs\.?|<rupee sign>) matched case-insensitively at position i of s:
\* the position after the marker, 0 when no marker starts at i
MarkerEnd(s, i) ==
    IF Lower(SafeSub(s, i, i + 2)) = "inr" THEN i + 3
    ELSE IF Lower(SafeSub(s, i, i + 1)) = "rs"
         THEN (IF SafeChar(s, i + 2) = "." THEN i + 3 ELSE i + 2)
    ELSE IF SafeChar(s, i) = "₹" THEN i + 1
    ELSE 0

\* \s? after the marker: the position of the first digit of group 2, 0 when
\* the pattern does not match at i
NumberStart(s, i) ==
    LET p == MarkerEnd(s, i)
    IN  IF p = 0 THEN 0
        ELSE IF IsDigit(SafeChar(s, p)) THEN p
        ELSE IF IsSpace(SafeChar(s, p)) /\ IsDigit(SafeChar(s, p + 1)) THEN p + 1
        ELSE 0

\* group 2, (\d+[,.]?\d*), read greedily from its first digit d
NumberToken(s, d) ==
    LET e1 == RunEnd(s, d, "d")
        sep == SafeChar(s, e1 + 1)
        e2 == IF sep = "," \/ sep = "." THEN RunEnd(s, e1 + 2, "d") ELSE e1
    IN  SubSeq(s, d, e2)

\* re.search(money_pattern, body): group 2 of the leftmost match, "" for None
money_match(body) ==
    LET starts == {i \in 1..Len(body) : NumberStart(body, i) > 0}
    IN  IF starts = {} THEN ""
        ELSE LET first == CHOOSE i \in starts : \A j \in starts : i <= j
             IN  NumberToken(body, NumberStart(body, first))

\* re.search(r'to\s([A-Za-z\s]+)', body, re.IGNORECASE): group 1, "" for None
recipient_match(body) ==
    LET starts == {i \in 1..Len(body) :
                      /\ Lower(SafeSub(body, i, i + 1)) = "to"
                      /\ IsSpace(SafeChar(body, i + 2))
                      /\ RunEnd(body, i + 3, "a") >= i + 3}
    IN  IF starts = {} THEN ""
        ELSE LET first == CHOOSE i \in starts : \A j \in starts : i <= j
             IN  SubSeq(body, first + 3, RunEnd(body, first + 3, "a"))

RECURSIVE DigitsValue(_)
\* int() of a string of digits (0 for the empty string)
DigitsValue(s) ==
    IF Len(s) = 0 THEN 0
    ELSE 10 * DigitsValue(SubSeq(s, 1, Len(s) - 1)) + (IndexIn(Digits, CharAt(s, Len(s))) - 1)

\* float(amount), in thousandths; amount is digits with at most one "." and
\* at most three digits after it
ToFloat(amount) ==
    LET dots == {i \in 1..Len(amount) : CharAt(amount, i) = "."}
        dot == IF dots = {} THEN Len(amount) + 1 ELSE CHOOSE i \in dots : TRUE
        whole == SubSeq(amount, 1, dot - 1)
        frac == SafeSub(amount, dot + 1, Len(amount))
        frac3 == SubSeq(frac \o "000", 1, 3)
    IN  1000 * DigitsValue(whole) + DigitsValue(frac3)

\* a parser that tests the debit keywords before the credit keywords
parse_debit_first(body) ==
    LET m == money_match(body)
        r == recipient_match(body)
        low == Lower(body)
    IN  [amount |-> IF m # "" THEN FilterChars(m, 1, ",") ELSE "0",
         recipient |-> IF r # "" THEN Strip(r) ELSE "N/A",
         transaction_type |->
             IF Contains(low, "debited") \/ Contains(low, "sent") THEN "debited"
             ELSE IF Contains(low, "credited") \/ Contains(low, "received") THEN "credited"
             ELSE "N/A"]

\* transaction_processor.py parse_transaction_details: (amount, recipient, type)
parse_transaction_details(body) ==
    LET m == money_match(body)
        r == recipient_match(body)
        low == Lower(body)
    IN  [amount |-> IF m # "" THEN FilterChars(m, 1, ",") ELSE "0",
         recipient |-> IF r # "" THEN Strip(r) ELSE "N/A",
         transaction_type |->
             IF Contains(low, "credited") \/ Contains(low, "received") THEN "credited"
             ELSE IF Contains(low, "debited") \/ Contains(low, "sent") THEN "debited"
             ELSE "N/A"]

(***************************************************************************)
(* Program constants.                                                      *)
(***************************************************************************)
Fallback == "Miscellaneous"
CreditCategory == "Savings & Transfers"

transaction_categories ==
    {"debited", "credited", "sent", "received", "payment successful", "amount sent"}
non_transactional ==
    {"offer", "promotion", "hurry", "discount", "click here", "thanks for recharge"}

category_mapping ==
    ("Essentials" :> "Essentials") @@ ("Food & Dining" :> "Food") @@
    ("Shopping" :> "Shopping") @@ ("Entertainment & Lifestyle" :> "Lifestyle") @@
    ("Savings & Transfers" :> "Savings") @@ ("Travel & Transportation" :> "Travel") @@
    ("Subscriptions & Services" :> "Subscription") @@ ("Miscellaneous" :> "Misc.")

\* 1.py: amount_float > 2000 asks for human verification (in thousandths)
VerificationThreshold == 2000000

(***************************************************************************)
(* The records the environment can add to the raw and the manual store.    *)
(***************************************************************************)
BodyTable ==
    << "INR 2500 debited for shopping, sent to Amazon",
       "Hurry! Rs. 100 cashback credited, offer ends",
       "Payment successful: Rs 3,000 at store",
       "Your OTP is 4321",
       "Rs. 1,500 credited to your account",
       "INR 75.50 debited at hospital" >>

RawIds == 1..MaxRaw
\* a raw_sms document; every third one carries no readable_date ("" here)
RawDoc(i) ==
    [_id |-> i,
     body |-> BodyTable[((i - 1) % Len(BodyTable)) + 1],
     address |-> "VM-BANK",
     readable_date |-> IF i % 3 = 0 THEN "" ELSE "2024-11-02 10:15:00"]

ManualTable ==
    << [expenseName |-> "Miscellaneous", expenseAmount |-> 12344],
       [expenseName |-> "Rent", expenseAmount |-> 5000000],
       [expenseName |-> "Shopping", expenseAmount |-> 30500] >>

ManualIds == 101..(100 + MaxManual)
\* an expenses document; amounts are in thousandths, the first one 12.344
ManualDoc(j) ==
    [_id |-> j,
     expenseName |-> ManualTable[((j - 101) % Len(ManualTable)) + 1].expenseName,
     expenseAmount |-> ManualTable[((j - 101) % Len(ManualTable)) + 1].expenseAmount]

\* The texts the model ever parses; what the pure functions answer for each
\* is computed once and looked up in the actions.
BodySet == {BodyTable[k] : k \in 1..Len(BodyTable)}
TypeSet == {"credited", "debited", "N/A"}
ParsedOf == [b \in BodySet |-> parse_transaction_details(b)]
AmountOf == [b \in BodySet |-> ToFloat(ParsedOf[b].amount)]
CleanedOf == [b \in BodySet |-> clean_text(b)]
LowerOf == [s \in TypeSet |-> Lower(s)]

\* datetime.now().strftime(...) while the clock shows month m
NowString(m) == "now-" \o ToString(m)

(***************************************************************************)
(* CategoryClassifier.  A fit is named by the training examples it was     *)
(* fitted on besides the default corpus; the classifier holds a model, a   *)
(* vectorizer and a label encoder, each with the fit it comes from.        *)
(***************************************************************************)
\* the outcome "the call raises" of a model invocation
Raise == "<raise>"

DefaultFit == {}
\* a fit that has learned one human correction
CorrectedFit == {[body |-> BodyTable[3], category |-> "Shopping"]}

\* the labels of the default corpus Cleaned_Classified.csv
CorpusLabels == {"Shopping", "Healthcare", "Miscellaneous"}

\* what the model fitted on the default corpus answers for a cleaned text
CorpusLabel(text) ==
    IF Contains(text, "shopping") THEN "Shopping"
    ELSE IF Contains(text, "hospital") THEN "Healthcare"
    ELSE "Miscellaneous"

CorpusLabelOf == [b \in BodySet |-> CorpusLabel(CleanedOf[b])]

\* model.predict + label_encoder.inverse_transform of one consistent fit, on
\* the cleaned text of body
Predict(fit, body) ==
    LET hits == {e \in fit : CleanedOf[e.body] = CleanedOf[body]}
    IN  IF hits # {} THEN (CHOOSE e \in hits : TRUE).category ELSE CorpusLabelOf[body]

Unfitted == [trained |-> FALSE, model |-> DefaultFit, vectorizer |-> DefaultFit,
             label_encoder |-> DefaultFit]
Fitted(fit) == [trained |-> TRUE, model |-> fit, vectorizer |-> fit, label_encoder |-> fit]

\* the outcomes of vectorizer.transform, model.predict and inverse_transform:
\* the prediction when the three components come from one fit; otherwise the
\* call may raise or decode to any label the encoder knows
PredictOutcomes(c, body) ==
    IF c.vectorizer = c.model /\ c.label_encoder = c.model
    THEN {Predict(c.model, body)}
    ELSE {Raise} \cup CorpusLabels \cup {e.category : e \in c.label_encoder}

\* a classifier that asks the model whatever the direction is
classify_without_direction_test(c, body, transaction_type, predicted) ==
    IF ~c.trained THEN [category |-> Fallback, invoked |-> FALSE]
    ELSE IF predicted = Raise THEN [category |-> Fallback, invoked |-> TRUE]
    ELSE [category |-> predicted, invoked |-> TRUE]

\* a credit is answered with the fixed category only after the model has been
\* invoked without raising
classify_transaction(c, body, transaction_type, predicted) ==
    IF ~c.trained \/ transaction_type = "N/A"
    THEN [category |-> Fallback, invoked |-> FALSE]
    ELSE IF predicted = Raise
    THEN [category |-> Fallback, invoked |-> TRUE]
    ELSE [category |-> IF LowerOf[transaction_type] = "credited" THEN CreditCategory
                       ELSE predicted,
          invoked |-> TRUE]

\* the three pickle files; each is <<>> when missing and <<fit>> when present
NoPickles == [model |-> <<>>, vectorizer |-> <<>>, label_encoder |-> <<>>]
PicklesOf(c) ==
    [model |-> <<c.model>>, vectorizer |-> <<c.vectorizer>>,
     label_encoder |-> <<c.label_encoder>>]

\* train_model / prepare_model on the default corpus plus the examples
train_model(examples) == Fitted(examples)

\* initialize_model: load the three pickles, on any failure train on the
\* default corpus
initialize_model(p) ==
    IF p.model # <<>> /\ p.vectorizer # <<>> /\ p.label_encoder # <<>>
    THEN [trained |-> TRUE, model |-> p.model[1], vectorizer |-> p.vectorizer[1],
          label_encoder |-> p.label_encoder[1]]
    ELSE train_model(DefaultFit)

\* the pickle files after initialize_model
PicklesAfterInit(p) ==
    IF p.model # <<>> /\ p.vectorizer # <<>> /\ p.label_encoder # <<>>
    THEN p
    ELSE PicklesOf(train_model(DefaultFit))

(***************************************************************************)
(* Stores: every collection is a set of documents.                         *)
(***************************************************************************)
IdsOf(coll) == {d._id : d \in coll}

\* a plain upsert, {"$set": doc}: the stored document is overwritten
upsert_set(coll, doc) == {d \in coll : d._id # doc._id} \cup {doc}

\* update_one({"_id": id}, {"$setOnInsert": doc}, upsert=True)
upsert_set_on_insert(coll, doc) ==
    IF \E d \in coll : d._id = doc._id THEN coll ELSE coll \cup {doc}

\* a filter for which a transaction keyword outweighs a promotional one
is_filtered_unless_transaction(sms_body) ==
    ~ \E cat \in transaction_categories : Contains(Lower(sms_body), cat)

\* the filter of process_single_sms: TRUE when the message is discarded
is_filtered(sms_body) ==
    \/ ~ \E cat \in transaction_categories : Contains(Lower(sms_body), cat)
    \/ \E non_trans \in non_transactional : Contains(Lower(sms_body), non_trans)

FilteredOf == [b \in BodySet |-> is_filtered(b)]

transaction_data(sms, amount, recipient, transaction_type, body, now) ==
    [_id |-> sms._id,
     Date |-> IF sms.readable_date # "" THEN sms.readable_date ELSE NowString(now),
     Address |-> sms.address,
     Amount |-> amount,
     Recipient |-> recipient,
     TransactionType |-> transaction_type,
     Body |-> body]

\* a record that is marked verified whatever its category
VerifiedAlways(category) == TRUE

Verified(category) == category # Fallback

categorized_data(txn, category) ==
    [_id |-> txn._id, Date |-> txn.Date, Address |-> txn.Address, Amount |-> txn.Amount,
     Recipient |-> txn.Recipient, TransactionType |-> txn.TransactionType,
     Body |-> txn.Body, Category |-> category, Verified |-> Verified(category)]

\* a seeding that forgets the categorized store and the manual entries
seed_from_transactions_only(processed, categorized, manual) == IdsOf(processed)

\* initialize_processed_ids of TransactionProcessor: the three stores
initialize_processed_ids(processed, categorized, manual) ==
    IdsOf(processed) \cup IdsOf(categorized) \cup manual

\* initialize_processed_ids of 1.py: the two transaction stores
script_initialize_processed_ids(processed, categorized) ==
    IdsOf(processed) \cup IdsOf(categorized)

(***************************************************************************)
(* Aggregator: update_combined_transactions.                               *)
(***************************************************************************)
\* category_totals[new_cat] = category_totals.get(new_cat, 0) + amt
AddTo(totals, new_cat, amt) ==
    [c \in DOMAIN totals \cup {new_cat} |->
        IF c = new_cat THEN (IF c \in DOMAIN totals THEN totals[c] ELSE 0) + amt
        ELSE totals[c]]

RECURSIVE Accumulate(_, _)
\* one loop of update_combined_transactions over docs, a set of
\* [id, cat, amt]: documents whose category is no key of the table are skipped
Accumulate(totals, docs) ==
    IF docs = {} THEN totals
    ELSE LET d == CHOOSE d \in docs : TRUE
         IN  Accumulate(IF d.cat \in DOMAIN category_mapping
                        THEN AddTo(totals, category_mapping[d.cat], d.amt)
                        ELSE totals,
                        docs \ {d})

\* round(total, 2) of a total held in thousandths: the nearest hundredth
\* (no total of the model lies halfway between two)
round2(total) == ((total + 5) \div 10) * 10

\* an aggregator without the loop over the manual entries
combine_categorized_only(categorized, manual) ==
    LET sms_docs == {[id |-> d._id, cat |-> d.Category, amt |-> d.Amount] : d \in categorized}
        category_totals == Accumulate(<<>>, sms_docs)
    IN  {[_id |-> c, category |-> c, value |-> round2(category_totals[c])] :
            c \in DOMAIN category_totals}

update_combined_transactions(categorized, manual) ==
    LET sms_docs == {[id |-> d._id, cat |-> d.Category, amt |-> d.Amount] : d \in categorized}
        manual_docs == {[id |-> j, cat |-> ManualDoc(j).expenseName,
                         amt |-> ManualDoc(j).expenseAmount] : j \in manual}
        category_totals == Accumulate(Accumulate(<<>>, sms_docs), manual_docs)
    IN  {[_id |-> c, category |-> c, value |-> round2(category_totals[c])] :
            c \in DOMAIN category_totals}

\* a run that leaves the documents of the prior run in the store
keep_all(coll) == coll

\* self.combined_collection.delete_many({})
delete_many(coll) == {}

\* lines 224-229: update_one({"_id": category}, {"$set": ...}, upsert=True)
\* for every computed total
upsert_totals(coll, totals) == {d \in coll : d._id \notin IdsOf(totals)} \cup totals

\* update_combined_transactions as an operation on the categorycharts store
\* a pass that leaves the totals as they are
leave_combined(combined, categorized, manual) == combined

run_update_combined(combined, categorized, manual) ==
    upsert_totals(delete_many(combined), update_combined_transactions(categorized, manual))

(***************************************************************************)
(* State.                                                                  *)
(***************************************************************************)
VARIABLES
    program,                \* "main": main.py; "script": 1.py
    month,                  \* datetime.now().month
    raw_collection,         \* ids of the raw_sms documents
    manual_collection,      \* ids of the expenses documents
    processed_collection,   \* transactions
    categorized_collection, \* categorized_transactions
    combined_collection,    \* categorycharts
    training_collection,    \* training_data, in insertion order
    pickles,                \* the persisted classifier files
    processed_ids,          \* the in-memory set of processed ids
    clf,                    \* model, vectorizer, label_encoder in memory
    last_sms_count,
    last_manual_count,
    lock,                   \* "free", or the thread that holds it: "rt", "mo"
    rt_pc,                  \* position of the ingestion loop
    current_sms_count,
    current_manual_count,
    new_sms,                \* the messages this pass was offered
    pending,                \* those of new_sms the loop has still to visit
    rt_log,                 \* the error this iteration printed, "none" if none
    mo_pc,                  \* position of run_monthly_analysis_loop
    last_analysis_month,    \* 0 for None
    current_month,
    cl_in,                  \* the arguments of the one call a specification of a
                            \* single operation studies
    cl_out,                 \* what the call returned
    goals_collection,       \* goals, in insertion order
    recommendation_collection, \* aicategories
    insights_collection     \* airecommendations, in insertion order

db_vars == <<raw_collection, manual_collection, processed_collection,
             categorized_collection, combined_collection, training_collection, pickles>>
rt_vars == <<processed_ids, clf, last_sms_count, last_manual_count, rt_pc,
             current_sms_count, current_manual_count, new_sms, pending, rt_log>>
mo_vars == <<mo_pc, last_analysis_month, current_month>>
ba_vars == <<goals_collection, recommendation_collection, insights_collection>>
fn_vars == <<cl_in, cl_out, ba_vars>>
vars == <<program, month, db_vars, rt_vars, mo_vars, lock, fn_vars>>

\* the classifier files the first start can find on disk: none (the default
\* fit is trained and saved), or a model file of a later fit beside older
\* companions
InitialPickles ==
    {NoPickles,
     [model |-> <<CorrectedFit>>, vectorizer |-> <<DefaultFit>>,
      label_encoder |-> <<DefaultFit>>]}

\* the outcomes of one save_transaction: both inserts done, the first insert
\* raises, the second insert raises
SaveOutcomes == {"ok", "fail_first", "fail_second"}

\* what the human types at the prompt of 1.py; "" keeps the fallback
HumanAnswers == {"", "Shopping", "Miscellaneous"}
\* the human stops correcting after this many training examples
MaxExamples == 2

(***************************************************************************)
(* Start of the process: the constructors and FinancialManager.run, or the *)
(* module-level initialisation of 1.py.                                    *)
(***************************************************************************)
Boot(prog, disk) ==
    /\ clf' = initialize_model(disk)
    /\ pickles' = PicklesAfterInit(disk)
    /\ processed_ids' =
         IF prog = "main"
         THEN initialize_processed_ids(processed_collection', categorized_collection',
                                       manual_collection')
         ELSE script_initialize_processed_ids(processed_collection', categorized_collection')
    /\ last_sms_count' = IF prog = "main" THEN Cardinality(raw_collection') ELSE 0
    /\ last_manual_count' = IF prog = "main" THEN Cardinality(manual_collection') ELSE 0
    /\ lock' = "free"
    /\ rt_pc' = IF prog = "main" THEN "poll" ELSE "find"
    /\ current_sms_count' = 0
    /\ current_manual_count' = 0
    /\ new_sms' = {}
    /\ pending' = {}
    /\ rt_log' = "none"
    /\ mo_pc' = IF prog = "main" THEN "check" ELSE "off"
    /\ last_analysis_month' = 0
    /\ current_month' = 0

\* the process is killed and started again: the stores and files stay
Restart ==
    /\ UNCHANGED <<fn_vars, program, month, raw_collection, manual_collection, processed_collection,
                   categorized_collection, combined_collection, training_collection>>
    /\ Boot(program, pickles)

(***************************************************************************)
(* The environment.                                                        *)
(***************************************************************************)
\* ids are handed out in the order of arrival
AddRaw(i) ==
    /\ i \notin raw_collection
    /\ \A k \in RawIds : k < i => k \in raw_collection
    /\ raw_collection' = raw_collection \cup {i}
    /\ UNCHANGED <<fn_vars, program, month, manual_collection, processed_collection,
                   categorized_collection, combined_collection, training_collection,
                   pickles, rt_vars, mo_vars, lock>>

\* the application writes a manual entry into the expenses collection
AddManual(j) ==
    /\ j \notin manual_collection
    /\ \A k \in ManualIds : k < j => k \in manual_collection
    /\ manual_collection' = manual_collection \cup {j}
    /\ UNCHANGED <<fn_vars, program, month, raw_collection, processed_collection,
                   categorized_collection, combined_collection, training_collection,
                   pickles, rt_vars, mo_vars, lock>>

MonthTick ==
    /\ month < MaxMonth
    /\ month' = month + 1
    /\ UNCHANGED <<fn_vars, program, db_vars, rt_vars, mo_vars, lock>>

\* a find() cursor returns the documents in their natural order, the order
\* of insertion: the next message of a batch is the oldest one left
NextOf(batch) == CHOOSE i \in batch : \A k \in batch : i <= k

(***************************************************************************)
(* main.py, monitor_changes: the real-time loop.                           *)
(***************************************************************************)
\* a loop without the try block: the exception ends the thread
MonitorUncaught == "dead"

\* where an exception raised inside the try block of monitor_changes leaves
\* the loop: the except clause, then time.sleep(10)
MonitorHandler == "backoff"

\* a section entered without the lock
EnterUnlocked(t) == TRUE

\* whether a thread may enter `with self.lock`
CanAcquire(t) == lock = "free"

\* lines 36-40 and 51: read the two counts and compare them with the last
\* seen; with no change the iteration only sleeps and the loop polls again
RtPoll ==
    /\ program = "main" /\ rt_pc = "poll"
    /\ IF Cardinality(raw_collection) # last_sms_count
          \/ Cardinality(manual_collection) # last_manual_count
       THEN /\ current_sms_count' = Cardinality(raw_collection)
            /\ current_manual_count' = Cardinality(manual_collection)
            /\ rt_pc' = "acquire"
       ELSE /\ UNCHANGED <<current_sms_count, current_manual_count>>
            /\ rt_pc' = "poll"
    /\ UNCHANGED rt_log
    /\ UNCHANGED <<fn_vars, program, month, db_vars, mo_vars, lock, processed_ids, clf,
                   last_sms_count, last_manual_count, new_sms, pending>>

\* the two inserts in the other order: the categorized store is written first
save_categorized_first(st, txn, category, outcome) ==
    [processed |-> IF outcome = "ok" THEN upsert_set_on_insert(st.processed, txn)
                   ELSE st.processed,
     categorized |-> IF outcome # "fail_first"
                     THEN upsert_set_on_insert(st.categorized, categorized_data(txn, category))
                     ELSE st.categorized,
     ids |-> st.ids,
     errors |-> st.errors,
     raised |-> outcome # "ok"]

\* save_transaction with the two stores st: the first insert, then the
\* second, either of which may raise
save_transaction(st, txn, category, outcome) ==
    [processed |-> IF outcome = "fail_first" THEN st.processed
                   ELSE upsert_set_on_insert(st.processed, txn),
     categorized |-> IF outcome = "ok"
                     THEN upsert_set_on_insert(st.categorized, categorized_data(txn, category))
                     ELSE st.categorized,
     ids |-> st.ids,
     errors |-> st.errors,
     raised |-> outcome # "ok"]

\* the model outcomes that make a difference to one message: none when the
\* model is not invoked, one when the save raises before the category is used
OutcomesFor(c, body, outcome) ==
    IF ~c.trained \/ ParsedOf[body].transaction_type = "N/A" \/ outcome # "ok"
    THEN {Raise}
    ELSE PredictOutcomes(c, body)

\* whether classify_transaction prints "Classification error" for the message
ClassificationRaises(c, sms, predicted) ==
    /\ predicted = Raise
    /\ classify_transaction(c, sms.body, ParsedOf[sms.body].transaction_type, predicted).invoked

\* a classifier without the try block: the exception of the model leaves
\* process_single_sms and nothing is saved
process_single_sms_uncaught(st, sms, c, now, predicted, outcome) ==
    IF FilteredOf[sms.body]
    THEN [st EXCEPT !.raised = FALSE]
    ELSE IF ClassificationRaises(c, sms, predicted)
    THEN [st EXCEPT !.raised = TRUE]
    ELSE LET parsed == ParsedOf[sms.body]
             category == classify_transaction(c, sms.body, parsed.transaction_type,
                                              predicted).category
             txn == transaction_data(sms, AmountOf[sms.body], parsed.recipient,
                                     parsed.transaction_type, sms.body, now)
             saved == save_transaction(st, txn, category, outcome)
         IN  [saved EXCEPT !.ids = IF saved.raised THEN st.ids ELSE st.ids \cup {sms._id}]

\* process_single_sms and lines 247-248 of process_new_data for one message:
\* a discarded message returns False and its id is not added; errors collects
\* the messages whose classification raised and was caught
process_single_sms(st, sms, c, now, predicted, outcome) ==
    IF FilteredOf[sms.body]
    THEN [processed |-> st.processed, categorized |-> st.categorized, ids |-> st.ids,
          errors |-> st.errors, raised |-> FALSE]
    ELSE LET parsed == ParsedOf[sms.body]
             category == classify_transaction(c, sms.body, parsed.transaction_type,
                                              predicted).category
             txn == transaction_data(sms, AmountOf[sms.body], parsed.recipient,
                                     parsed.transaction_type, sms.body, now)
             saved == save_transaction(st, txn, category, outcome)
         IN  [saved EXCEPT !.ids = IF saved.raised THEN st.ids ELSE st.ids \cup {sms._id},
                           !.errors = IF ~saved.raised /\ ClassificationRaises(c, sms, predicted)
                                      THEN st.errors \cup {sms._id} ELSE st.errors]

RECURSIVE ProcessBatch(_, _, _, _)
\* the for loop of process_new_data over the messages of batch, oldest first:
\* every way it can end, with raised telling whether an exception ended it
ProcessBatch(st, batch, c, now) ==
    IF batch = {} THEN {st}
    ELSE LET sms == RawDoc(NextOf(batch))
             steps == {process_single_sms(st, sms, c, now, predicted, outcome) :
                          <<predicted, outcome>> \in
                              UNION {OutcomesFor(c, sms.body, o) \X {o} : o \in SaveOutcomes}}
         IN  UNION {IF r.raised THEN {r} ELSE ProcessBatch(r, batch \ {sms._id}, c, now) :
                       r \in steps}

\* a pass that never finds a manual entry to be new
no_manual_ids(manual, ids) == {}

\* lines 235-236: the ids of the expenses store that are not in processed_ids
new_manual_ids_of(manual, ids) == manual \ ids

\* line 42, with self.lock, and process_new_data: the manual entries, then the
\* raw messages that are not in processed_ids, then lines 45-46
RtPass ==
    /\ program = "main" /\ rt_pc = "acquire"
    /\ CanAcquire("rt")
    /\ LET new_manual_ids == new_manual_ids_of(manual_collection, processed_ids)
           marked == processed_ids \cup new_manual_ids
           combined == IF new_manual_ids # {}
                       THEN run_update_combined(combined_collection, categorized_collection,
                                                manual_collection)
                       ELSE combined_collection
           batch == raw_collection \ marked
       IN  \E r \in ProcessBatch([processed |-> processed_collection,
                                  categorized |-> categorized_collection,
                                  ids |-> marked, errors |-> {}, raised |-> FALSE],
                                 batch, clf, month) :
              /\ processed_collection' = r.processed
              /\ categorized_collection' = r.categorized
              /\ processed_ids' = r.ids
              /\ IF r.raised
                 THEN \* the exception leaves process_new_data and the with block
                      /\ combined_collection' = combined
                      /\ lock' = "free"
                      /\ rt_pc' = MonitorHandler
                      /\ rt_log' = "monitoring error"
                      /\ new_sms' = {}
                      /\ UNCHANGED <<last_sms_count, last_manual_count>>
                 ELSE /\ combined_collection' =
                           IF batch # {}
                           THEN run_update_combined(combined, r.categorized,
                                                    manual_collection)
                           ELSE combined
                      /\ lock' = "rt"
                      /\ rt_pc' = "analysis"
                      /\ new_sms' = batch
                      /\ last_sms_count' = current_sms_count
                      /\ last_manual_count' = current_manual_count
                      /\ rt_log' = IF r.errors # {} THEN "classification error" ELSE rt_log
    /\ current_sms_count' = 0 /\ current_manual_count' = 0
    /\ UNCHANGED <<fn_vars, program, month, raw_collection, manual_collection,
                   training_collection, pickles, mo_vars, clf, pending>>

\* lines 48-49: run_monthly_analysis catches its own failure and returns
\* False; the with block ends
RtFinish(ok) ==
    /\ program = "main" /\ rt_pc = "analysis"
    /\ rt_log' = IF ok THEN rt_log ELSE "analysis error"
    /\ new_sms' = {}
    /\ lock' = "free"
    /\ rt_pc' = "sleep"
    /\ UNCHANGED <<fn_vars, program, month, db_vars, mo_vars, processed_ids, clf,
                   last_sms_count, last_manual_count, current_sms_count,
                   current_manual_count, pending>>

\* time.sleep(5) or time.sleep(10) is over
RtWake ==
    /\ program = "main" /\ rt_pc \in {"sleep", "backoff"}
    /\ rt_pc' = "poll"
    /\ rt_log' = "none"
    /\ UNCHANGED <<fn_vars, program, month, db_vars, mo_vars, lock, processed_ids, clf,
                   last_sms_count, last_manual_count, current_sms_count,
                   current_manual_count, new_sms, pending>>

(***************************************************************************)
(* main.py, run_monthly_analysis_loop: the periodic loop.                  *)
(***************************************************************************)
\* a check that asks for the analysis whatever the month is
MoCheckAlways ==
    /\ program = "main" /\ mo_pc = "check"
    /\ current_month' = month /\ mo_pc' = "acquire"
    /\ UNCHANGED <<fn_vars, program, month, db_vars, rt_vars, lock, last_analysis_month>>

\* lines 60-61
MoCheck ==
    /\ program = "main" /\ mo_pc = "check"
    /\ IF month # last_analysis_month
       THEN current_month' = month /\ mo_pc' = "acquire"
       ELSE current_month' = 0 /\ mo_pc' = "check"
    /\ UNCHANGED <<fn_vars, program, month, db_vars, rt_vars, lock, last_analysis_month>>

\* line 62
MoAcquire ==
    /\ program = "main" /\ mo_pc = "acquire"
    /\ CanAcquire("mo")
    /\ lock' = "mo"
    /\ mo_pc' = "analysis"
    /\ UNCHANGED <<fn_vars, program, month, db_vars, rt_vars, last_analysis_month, current_month>>

\* lines 64-65: run_monthly_analysis catches its own failure and returns
\* False, which the loop does not look at
MoAnalysis(ok) ==
    /\ program = "main" /\ mo_pc = "analysis"
    /\ ok \in BOOLEAN
    /\ last_analysis_month' = current_month
    /\ current_month' = 0
    /\ lock' = "free"
    /\ mo_pc' = "sleep"
    /\ UNCHANGED <<fn_vars, program, month, db_vars, rt_vars>>

\* time.sleep(3600) is over
MoWake ==
    /\ program = "main" /\ mo_pc = "sleep"
    /\ mo_pc' = "check"
    /\ UNCHANGED <<fn_vars, program, month, db_vars, rt_vars, lock, last_analysis_month,
                   current_month>>

(***************************************************************************)
(* 1.py: the stand-alone polling loop with the human-review prompt.        *)
(***************************************************************************)
\* where an exception inside the try block of the loop of 1.py leaves it
ScriptHandler == "backoff"

\* the examples a retrain is fitted on: training_collection.find()
ExamplesOf(training) == {training[k] : k \in 1..Len(training)}

\* line 167: raw_collection.find({"_id": {"$nin": list(processed_ids)}})
ScFind ==
    /\ program = "script" /\ rt_pc = "find"
    /\ new_sms' = raw_collection \ processed_ids
    /\ pending' = raw_collection \ processed_ids
    /\ rt_pc' = "each"
    /\ UNCHANGED <<fn_vars, program, month, db_vars, mo_vars, lock, processed_ids, clf,
                   last_sms_count, last_manual_count, current_sms_count,
                   current_manual_count, rt_log>>

\* lines 169-179: the next message of the cursor is discarded by the filter
\* and marked processed
ScSkip ==
    /\ program = "script" /\ rt_pc = "each"
    /\ pending # {}
    /\ FilteredOf[RawDoc(NextOf(pending)).body]
    /\ processed_ids' = processed_ids \cup {NextOf(pending)}
    /\ pending' = pending \ {NextOf(pending)}
    /\ UNCHANGED <<fn_vars, program, month, db_vars, mo_vars, lock, clf, last_sms_count,
                   last_manual_count, current_sms_count, current_manual_count, new_sms,
                   rt_pc, rt_log>>

\* a store step that uses the answer of the human for the record but keeps
\* no training example and does not retrain
ScStoreWithoutExample(i, category, human, outcome) ==
    LET sms == RawDoc(i)
        parsed == ParsedOf[sms.body]
        txn == transaction_data(sms, AmountOf[sms.body], parsed.recipient,
                                parsed.transaction_type, sms.body, month)
    IN  /\ UNCHANGED <<training_collection, clf, pickles>>
        /\ processed_collection' =
             IF outcome = "fail_first" THEN processed_collection
             ELSE upsert_set_on_insert(processed_collection, txn)
        /\ categorized_collection' =
             IF outcome = "ok"
             THEN upsert_set_on_insert(categorized_collection,
                                       categorized_data(txn, category))
             ELSE categorized_collection
        /\ IF outcome = "ok"
           THEN /\ processed_ids' = processed_ids \cup {i}
                /\ pending' = pending \ {i}
                /\ rt_pc' = "each"
                /\ UNCHANGED <<rt_log, new_sms>>
           ELSE /\ rt_pc' = ScriptHandler
                /\ rt_log' = "system error"
                /\ pending' = {} /\ new_sms' = {}
                /\ UNCHANGED processed_ids

\* lines 195-230: the message is stored under category; human is what the
\* prompt returned, "" when there was no prompt or the answer was empty
ScStore(i, category, human, outcome) ==
    LET sms == RawDoc(i)
        parsed == ParsedOf[sms.body]
        txn == transaction_data(sms, AmountOf[sms.body], parsed.recipient,
                                parsed.transaction_type, sms.body, month)
    IN  \* update_training_data: insert the example, retrain, persist
        /\ training_collection' =
             IF human # ""
             THEN Append(training_collection, [body |-> sms.body, category |-> human])
             ELSE training_collection
        /\ clf' = IF human # "" THEN train_model(ExamplesOf(training_collection'))
                  ELSE clf
        /\ pickles' = IF human # "" THEN PicklesOf(clf') ELSE pickles
        /\ processed_collection' =
             IF outcome = "fail_first" THEN processed_collection
             ELSE upsert_set_on_insert(processed_collection, txn)
        /\ categorized_collection' =
             IF outcome = "ok"
             THEN upsert_set_on_insert(categorized_collection,
                                       categorized_data(txn, category))
             ELSE categorized_collection
        /\ IF outcome = "ok"
           THEN /\ processed_ids' = processed_ids \cup {i}
                /\ pending' = pending \ {i}
                /\ rt_pc' = "each"
                /\ UNCHANGED <<rt_log, new_sms>>
           ELSE /\ rt_pc' = ScriptHandler
                /\ rt_log' = "system error"
                /\ pending' = {} /\ new_sms' = {}
                /\ UNCHANGED processed_ids

\* an escalation that starts at the threshold
EscalatedAtThreshold(category, amount_float) ==
    category = Fallback /\ amount_float >= VerificationThreshold

\* line 187: category == "Miscellaneous" and amount_float > 2000
Escalated(category, amount_float) ==
    category = Fallback /\ amount_float > VerificationThreshold

\* lines 169-230: the next message of the cursor passes the filter and is
\* not escalated
ScEach(predicted, outcome) ==
    /\ program = "script" /\ rt_pc = "each"
    /\ pending # {}
    /\ ~FilteredOf[RawDoc(NextOf(pending)).body]
    /\ LET i == NextOf(pending)
           sms == RawDoc(i)
           classified == classify_transaction(clf, sms.body,
                                              ParsedOf[sms.body].transaction_type,
                                              predicted).category
       IN  /\ predicted \in OutcomesFor(clf, sms.body, "ok")
           /\ ~Escalated(classified, AmountOf[sms.body])
           /\ ScStore(i, classified, "", outcome)
    /\ UNCHANGED <<fn_vars, program, month, raw_collection, manual_collection,
                   combined_collection, mo_vars, lock, last_sms_count, last_manual_count,
                   current_sms_count, current_manual_count>>

\* lines 181-191: the next message is escalated and input(...) is called
ScPrompt(predicted) ==
    /\ program = "script" /\ rt_pc = "each"
    /\ pending # {}
    /\ ~FilteredOf[RawDoc(NextOf(pending)).body]
    /\ LET sms == RawDoc(NextOf(pending))
           classified == classify_transaction(clf, sms.body,
                                              ParsedOf[sms.body].transaction_type,
                                              predicted).category
       IN  /\ predicted \in OutcomesFor(clf, sms.body, "ok")
           /\ Escalated(classified, AmountOf[sms.body])
    /\ rt_pc' = "prompt"
    /\ UNCHANGED <<fn_vars, program, month, db_vars, mo_vars, lock, processed_ids, clf,
                   last_sms_count, last_manual_count, current_sms_count,
                   current_manual_count, new_sms, pending, rt_log>>

\* lines 191-230: the human answers the prompt and input(...) returns
ScAnswer(human, outcome) ==
    /\ program = "script" /\ rt_pc = "prompt"
    /\ human # "" => Len(training_collection) < MaxExamples
    /\ ScStore(NextOf(pending), IF human # "" THEN human ELSE Fallback, human, outcome)
    /\ UNCHANGED <<fn_vars, program, month, raw_collection, manual_collection,
                   combined_collection, mo_vars, lock, last_sms_count, last_manual_count,
                   current_sms_count, current_manual_count>>

\* the cursor is exhausted: time.sleep(5)
ScEndLoop ==
    /\ program = "script" /\ rt_pc = "each" /\ pending = {}
    /\ new_sms' = {}
    /\ rt_pc' = "sleep"
    /\ UNCHANGED <<fn_vars, program, month, db_vars, mo_vars, lock, processed_ids, clf,
                   last_sms_count, last_manual_count, current_sms_count,
                   current_manual_count, pending, rt_log>>

ScWake ==
    /\ program = "script" /\ rt_pc \in {"sleep", "backoff"}
    /\ rt_pc' = "find"
    /\ rt_log' = "none"
    /\ UNCHANGED <<fn_vars, program, month, db_vars, mo_vars, lock, processed_ids, clf,
                   last_sms_count, last_manual_count, current_sms_count,
                   current_manual_count, new_sms, pending>>

(***************************************************************************)
(* The specification of the two programs.                                  *)
(***************************************************************************)
NoCall == [body |-> "", transaction_type |-> "N/A", clf |-> Unfitted]
NoResult == [applied |-> FALSE, category |-> "", invoked |-> FALSE]

\* every outcome a model invocation can have
AllOutcomes == {Raise} \cup CorpusLabels \cup HumanAnswers

Init ==
    /\ program \in {"main", "script"}
    /\ month = 1
    /\ raw_collection = {} /\ manual_collection = {}
    /\ processed_collection = {} /\ categorized_collection = {}
    /\ combined_collection = {} /\ training_collection = <<>>
    /\ \E disk \in InitialPickles :
          /\ clf = initialize_model(disk)
          /\ pickles = PicklesAfterInit(disk)
    /\ processed_ids = {}
    /\ last_sms_count = 0 /\ last_manual_count = 0
    /\ lock = "free"
    /\ rt_pc = IF program = "main" THEN "poll" ELSE "find"
    /\ current_sms_count = 0 /\ current_manual_count = 0
    /\ new_sms = {} /\ pending = {}
    /\ rt_log = "none"
    /\ mo_pc = IF program = "main" THEN "check" ELSE "off"
    /\ last_analysis_month = 0 /\ current_month = 0
    /\ cl_in = NoCall /\ cl_out = NoResult
    /\ goals_collection = <<>> /\ recommendation_collection = {}
    /\ insights_collection = <<>>

Next ==
    \/ \E i \in RawIds : AddRaw(i)
    \/ \E j \in ManualIds : AddManual(j)
    \/ MonthTick
    \/ Restart
    \/ RtPoll
    \/ RtPass
    \/ \E ok \in BOOLEAN : RtFinish(ok)
    \/ RtWake
    \/ MoCheck
    \/ MoAcquire
    \/ \E ok \in BOOLEAN : MoAnalysis(ok)
    \/ MoWake
    \/ ScFind
    \/ ScSkip
    \/ \E predicted \in AllOutcomes, outcome \in SaveOutcomes : ScEach(predicted, outcome)
    \/ \E predicted \in AllOutcomes : ScPrompt(predicted)
    \/ \E human \in HumanAnswers, outcome \in SaveOutcomes : ScAnswer(human, outcome)
    \/ ScEndLoop
    \/ ScWake

Spec == Init /\ [][Next]_vars

(***************************************************************************)
(* main.py alone while it runs, with its two threads scheduled fairly: a   *)
(* thread goes on with its next statement whenever it has one to run, and  *)
(* the stores do not fail forever, so that a pass that is tried again and  *)
(* again ends without an exception at some time.                           *)
(***************************************************************************)
InitMain == Init /\ program = "main"

\* the statements of monitor_changes around the pass
RtStep ==
    \/ RtPoll
    \/ \E ok \in BOOLEAN : RtFinish(ok)
    \/ RtWake

\* RtPass is enabled: the thread is at the with statement and the lock is free
PassReady == program = "main" /\ rt_pc = "acquire" /\ CanAcquire("rt")

\* a pass of process_new_data that no exception ends
RtPassDone == RtPass /\ rt_pc' = "analysis"

\* weak fairness of RtPass and strong fairness of RtPassDone, written with
\* the condition that enables them: the thread does not stay before the
\* pass for ever, and passes tried again and again do not all fail
FairPass ==
    /\ []<>~PassReady
    /\ ([]<>PassReady) => ([]<><<RtPassDone>>_vars)

\* the statements of run_monthly_analysis_loop
MoStep ==
    \/ MoCheck
    \/ MoAcquire
    \/ \E ok \in BOOLEAN : MoAnalysis(ok)
    \/ MoWake

NextMain ==
    \/ \E i \in RawIds : AddRaw(i)
    \/ \E j \in ManualIds : AddManual(j)
    \/ MonthTick
    \/ RtStep
    \/ RtPass
    \/ MoStep

SpecMain ==
    InitMain /\ [][NextMain]_vars /\ WF_vars(RtStep) /\ FairPass /\ WF_vars(MoStep)

(***************************************************************************)
(* The orchestrator started on stores that already hold raw messages and   *)
(* manual entries, written while it was not running.                       *)
(***************************************************************************)
\* FinancialManager.__init__ and run, lines 22-23: processed_ids is seeded
\* from the stores and the last-seen counts are the counts of the stores
InitBacklog ==
    /\ program = "main"
    /\ month = 1
    /\ raw_collection \in {1..k : k \in 0..MaxRaw}
    /\ manual_collection \in {101..(100 + k) : k \in 0..MaxManual}
    /\ processed_collection = {} /\ categorized_collection = {}
    /\ combined_collection = {} /\ training_collection = <<>>
    /\ \E disk \in InitialPickles :
          /\ clf = initialize_model(disk)
          /\ pickles = PicklesAfterInit(disk)
    /\ processed_ids = initialize_processed_ids(processed_collection,
                                                categorized_collection,
                                                manual_collection)
    /\ last_sms_count = Cardinality(raw_collection)
    /\ last_manual_count = Cardinality(manual_collection)
    /\ lock = "free"
    /\ rt_pc = "poll"
    /\ current_sms_count = 0 /\ current_manual_count = 0
    /\ new_sms = {} /\ pending = {}
    /\ rt_log = "none"
    /\ mo_pc = "check"
    /\ last_analysis_month = 0 /\ current_month = 0
    /\ cl_in = NoCall /\ cl_out = NoResult
    /\ goals_collection = <<>> /\ recommendation_collection = {}
    /\ insights_collection = <<>>

SpecBacklog ==
    InitBacklog /\ [][NextMain]_vars /\ WF_vars(RtStep) /\ FairPass /\ WF_vars(MoStep)

(***************************************************************************)
(* home_page.py: the polling loop of the single-file variant.              *)
(***************************************************************************)
InitHome ==
    /\ program = "home"
    /\ month = 1
    /\ raw_collection = {} /\ manual_collection = {}
    /\ processed_collection = {} /\ categorized_collection = {}
    /\ combined_collection = {} /\ training_collection = <<>>
    /\ \E disk \in InitialPickles :
          /\ clf = initialize_model(disk)
          /\ pickles = PicklesAfterInit(disk)
    /\ processed_ids = initialize_processed_ids(processed_collection,
                                                categorized_collection,
                                                manual_collection)
    /\ last_sms_count = Cardinality(raw_collection)
    /\ last_manual_count = Cardinality(manual_collection)
    /\ lock = "free"
    /\ rt_pc = "poll"
    /\ current_sms_count = 0 /\ current_manual_count = 0
    /\ new_sms = {} /\ pending = {}
    /\ rt_log = "none"
    /\ mo_pc = "off"
    /\ last_analysis_month = 0 /\ current_month = 0
    /\ cl_in = NoCall /\ cl_out = NoResult
    /\ goals_collection = <<>> /\ recommendation_collection = {}
    /\ insights_collection = <<>>

\* line 188: last_sms_count = current_sms_count, before the for loop
count_before_pass(current, last, raised) == current

RECURSIVE HomeBatch(_, _, _, _)
\* lines 192-242: the for loop over the messages that are not in
\* processed_ids, oldest first; a discarded message is added to processed_ids
HomeBatch(st, batch, c, now) ==
    IF batch = {} THEN {st}
    ELSE LET sms == RawDoc(NextOf(batch))
             steps == IF FilteredOf[sms.body]
                      THEN {[st EXCEPT !.ids = st.ids \cup {sms._id}]}
                      ELSE {process_single_sms(st, sms, c, now, predicted, outcome) :
                               <<predicted, outcome>> \in
                                   UNION {OutcomesFor(c, sms.body, o) \X {o} :
                                             o \in SaveOutcomes}}
         IN  UNION {IF r.raised THEN {r} ELSE HomeBatch(r, batch \ {sms._id}, c, now) :
                       r \in steps}

\* lines 172-182: the manual entries have changed; continue
HpManual ==
    /\ program = "home" /\ rt_pc = "poll"
    /\ Cardinality(manual_collection) # last_manual_count
    /\ processed_ids' = processed_ids \cup manual_collection
    /\ last_manual_count' = Cardinality(manual_collection)
    /\ combined_collection' = run_update_combined(combined_collection,
                                                  categorized_collection,
                                                  manual_collection)
    /\ UNCHANGED <<fn_vars, program, month, raw_collection, manual_collection,
                   processed_collection, categorized_collection, training_collection,
                   pickles, clf, last_sms_count, rt_pc, current_sms_count,
                   current_manual_count, new_sms, pending, rt_log, mo_vars, lock>>

\* the sms branch is taken by the next iteration
HomeReady ==
    /\ program = "home" /\ rt_pc = "poll"
    /\ Cardinality(manual_collection) = last_manual_count
    /\ Cardinality(raw_collection) # last_sms_count

\* lines 185-251: the raw messages have changed
HpSms ==
    /\ HomeReady
    /\ LET batch == raw_collection \ processed_ids
       IN  \E r \in HomeBatch([processed |-> processed_collection,
                               categorized |-> categorized_collection,
                               ids |-> processed_ids, errors |-> {}, raised |-> FALSE],
                              batch, clf, month) :
              /\ processed_collection' = r.processed
              /\ categorized_collection' = r.categorized
              /\ processed_ids' = r.ids
              /\ last_sms_count' = count_before_pass(Cardinality(raw_collection),
                                                     last_sms_count, r.raised)
              /\ new_sms' = batch
              /\ IF r.raised
                 THEN /\ rt_pc' = "backoff"
                      /\ rt_log' = "error"
                      /\ UNCHANGED combined_collection
                 ELSE /\ rt_pc' = "sleep"
                      /\ rt_log' = IF r.errors # {} THEN "classification error"
                                   ELSE rt_log
                      /\ combined_collection' =
                           IF r.categorized # categorized_collection
                              \/ \E i \in r.ids \ processed_ids :
                                    ~FilteredOf[RawDoc(i).body]
                           THEN run_update_combined(combined_collection, r.categorized,
                                                    manual_collection)
                           ELSE combined_collection
    /\ UNCHANGED <<fn_vars, program, month, raw_collection, manual_collection,
                   training_collection, pickles, clf, last_manual_count,
                   current_sms_count, current_manual_count, pending, mo_vars, lock>>

\* time.sleep(5) or time.sleep(10) is over
HpWake ==
    /\ program = "home" /\ rt_pc \in {"sleep", "backoff"}
    /\ rt_pc' = "poll"
    /\ rt_log' = "none"
    /\ new_sms' = {}
    /\ UNCHANGED <<fn_vars, program, month, db_vars, mo_vars, lock, processed_ids, clf,
                   last_sms_count, last_manual_count, current_sms_count,
                   current_manual_count, pending>>

\* a pass over the raw messages that no exception ends
HpSmsDone == HpSms /\ rt_pc' = "sleep"

\* the loop does not stay before the sms branch for ever, and passes tried
\* again and again do not all fail
FairHome ==
    /\ []<>~HomeReady
    /\ ([]<>HomeReady) => ([]<><<HpSmsDone>>_vars)

NextHome ==
    \/ \E i \in RawIds : AddRaw(i)
    \/ \E j \in ManualIds : AddManual(j)
    \/ MonthTick
    \/ HpManual
    \/ HpSms
    \/ HpWake

SpecHome ==
    InitHome /\ [][NextHome]_vars /\ WF_vars(HpManual) /\ WF_vars(HpWake) /\ FairHome

(***************************************************************************)
(* The script alone, with its loop scheduled fairly: the interpreter goes  *)
(* on with the next statement whenever there is one to run.  What the      *)
(* human, the application and the operator do is not scheduled.            *)
(***************************************************************************)
InitScript == Init /\ program = "script"

\* the statements of the loop of 1.py
ScStep ==
    \/ ScFind
    \/ ScSkip
    \/ \E predicted \in AllOutcomes, outcome \in SaveOutcomes : ScEach(predicted, outcome)
    \/ \E predicted \in AllOutcomes : ScPrompt(predicted)
    \/ ScEndLoop
    \/ ScWake

NextScript ==
    \/ \E i \in RawIds : AddRaw(i)
    \/ \E j \in ManualIds : AddManual(j)
    \/ MonthTick
    \/ Restart
    \/ ScStep
    \/ \E human \in HumanAnswers, outcome \in SaveOutcomes : ScAnswer(human, outcome)

SpecScript == InitScript /\ [][NextScript]_vars /\ WF_vars(ScStep)

(***************************************************************************)
(* classify_transaction as a function of its arguments and of the          *)
(* classifier state.                                                       *)
(***************************************************************************)
ClassifierStates ==
    {Unfitted, Fitted(DefaultFit), Fitted(CorrectedFit),
     [trained |-> TRUE, model |-> CorrectedFit, vectorizer |-> DefaultFit,
      label_encoder |-> DefaultFit]}

InitClassify ==
    /\ program = "classify"
    /\ month = 1
    /\ raw_collection = {} /\ manual_collection = {}
    /\ processed_collection = {} /\ categorized_collection = {}
    /\ combined_collection = {} /\ training_collection = <<>>
    /\ pickles = NoPickles
    /\ processed_ids = {}
    /\ clf = Unfitted
    /\ last_sms_count = 0 /\ last_manual_count = 0
    /\ lock = "free"
    /\ rt_pc = "off" /\ mo_pc = "off"
    /\ current_sms_count = 0 /\ current_manual_count = 0
    /\ new_sms = {} /\ pending = {}
    /\ rt_log = "none"
    /\ last_analysis_month = 0 /\ current_month = 0
    /\ cl_in \in [body : {BodyTable[k] : k \in 1..Len(BodyTable)},
                  transaction_type : {"credited", "debited", "N/A"},
                  clf : ClassifierStates]
    /\ cl_out = NoResult
    /\ goals_collection = <<>> /\ recommendation_collection = {}
    /\ insights_collection = <<>>

\* one call classify_transaction(body, transaction_type)
Classify(predicted) ==
    /\ program = "classify"
    /\ ~cl_out.applied
    /\ predicted \in PredictOutcomes(cl_in.clf, cl_in.body)
    /\ LET r == classify_transaction(cl_in.clf, cl_in.body, cl_in.transaction_type, predicted)
       IN  cl_out' = [applied |-> TRUE, category |-> r.category, invoked |-> r.invoked]
    /\ UNCHANGED <<cl_in, ba_vars, program, month, db_vars, rt_vars, mo_vars, lock>>

NextClassify == \E predicted \in AllOutcomes : Classify(predicted)

SpecClassify == InitClassify /\ [][NextClassify]_vars

(***************************************************************************)
(* update_combined_transactions as an operation on the stores: the sources *)
(* change between runs, and the store starts with what an earlier run or   *)
(* another writer left.                                                    *)
(***************************************************************************)
\* what the categorycharts store can hold before the first run
PriorCombined ==
    {{}, {[_id |-> "Travel", category |-> "Travel", value |-> 99000]},
     {[_id |-> "Misc.", category |-> "Misc.", value |-> 1000]}}

\* the categories the stored messages of this specification carry
AggregateCategories == {"Shopping", "Healthcare"}

InitAggregate ==
    /\ program = "aggregate"
    /\ month = 1
    /\ raw_collection = {}
    /\ manual_collection \in SUBSET ManualIds
    /\ processed_collection = {} /\ categorized_collection = {}
    /\ combined_collection \in PriorCombined
    /\ training_collection = <<>>
    /\ pickles = NoPickles
    /\ processed_ids = {}
    /\ clf = Unfitted
    /\ last_sms_count = 0 /\ last_manual_count = 0
    /\ lock = "free"
    /\ rt_pc = "idle" /\ mo_pc = "off"
    /\ current_sms_count = 0 /\ current_manual_count = 0
    /\ new_sms = {} /\ pending = {}
    /\ rt_log = "none"
    /\ last_analysis_month = 0 /\ current_month = 0
    /\ cl_in = {} /\ cl_out = NoResult
    /\ goals_collection = <<>> /\ recommendation_collection = {}
    /\ insights_collection = <<>>

\* a message is stored in categorized_transactions
AgStore(i, category) ==
    /\ program = "aggregate"
    /\ ~FilteredOf[RawDoc(i).body]
    /\ i \notin IdsOf(categorized_collection)
    /\ LET sms == RawDoc(i)
           txn == transaction_data(sms, AmountOf[sms.body], ParsedOf[sms.body].recipient,
                                   ParsedOf[sms.body].transaction_type, sms.body, month)
       IN  categorized_collection' =
               upsert_set_on_insert(categorized_collection, categorized_data(txn, category))
    /\ rt_pc' = "idle"
    /\ UNCHANGED <<program, month, raw_collection, manual_collection, processed_collection,
                   combined_collection, training_collection, pickles, processed_ids, clf,
                   last_sms_count, last_manual_count, current_sms_count,
                   current_manual_count, new_sms, pending, rt_log, mo_vars, lock, fn_vars>>

\* the application adds or deletes a manual entry
AgToggleManual(j) ==
    /\ program = "aggregate"
    /\ manual_collection' = IF j \in manual_collection THEN manual_collection \ {j}
                            ELSE manual_collection \cup {j}
    /\ rt_pc' = "idle"
    /\ UNCHANGED <<program, month, raw_collection, processed_collection,
                   categorized_collection, combined_collection, training_collection,
                   pickles, processed_ids, clf, last_sms_count, last_manual_count,
                   current_sms_count, current_manual_count, new_sms, pending, rt_log,
                   mo_vars, lock, fn_vars>>

\* one call update_combined_transactions(); cl_in keeps what the store held
\* before it
AgRun ==
    /\ program = "aggregate"
    /\ cl_in' = combined_collection
    /\ combined_collection' = run_update_combined(combined_collection,
                                                  categorized_collection, manual_collection)
    /\ rt_pc' = "ran"
    /\ UNCHANGED <<program, month, raw_collection, manual_collection, processed_collection,
                   categorized_collection, training_collection, pickles, processed_ids, clf,
                   last_sms_count, last_manual_count, current_sms_count,
                   current_manual_count, new_sms, pending, rt_log, mo_vars, lock, cl_out,
                   ba_vars>>

NextAggregate ==
    \/ \E i \in RawIds, category \in AggregateCategories : AgStore(i, category)
    \/ \E j \in ManualIds : AgToggleManual(j)
    \/ AgRun

SpecAggregate == InitAggregate /\ [][NextAggregate]_vars

(***************************************************************************)
(* budget_analyzer.py.  Python's floats are modelled by exact fractions    *)
(* <<numerator, denominator>> in lowest terms with a positive denominator, *)
(* so a quotient such as targetAmount / timeframe loses nothing.           *)
(***************************************************************************)
\* the largest number of goals in the goals collection
MaxGoals == 2

Abs(x) == IF x < 0 THEN -x ELSE x

RECURSIVE Gcd(_, _)
Gcd(a, b) == IF b = 0 THEN a ELSE Gcd(b, a % b)

\* the float n / d, d # 0
Rat(n, d) ==
    LET g == Gcd(Abs(n), Abs(d))
        s == IF d < 0 THEN -1 ELSE 1
    IN  <<(s * n) \div g, (s * d) \div g>>

RatAdd(p, q) == Rat(p[1] * q[2] + q[1] * p[2], p[2] * q[2])
RatSub(p, q) == Rat(p[1] * q[2] - q[1] * p[2], p[2] * q[2])
RatMul(p, q) == Rat(p[1] * q[1], p[2] * q[2])
\* p / q, q # 0
RatDiv(p, q) == Rat(p[1] * q[2], p[2] * q[1])
RatLess(p, q) == p[1] * q[2] < q[1] * p[2]
Zero == Rat(0, 1)

\* g["targetAmount"] / g["timeframe"]
monthly_target(g) == Rat(g.targetAmount, g.timeframe)

RECURSIVE SumTargets(_, _)
\* sum(g["targetAmount"] / g["timeframe"] for g in valid_goals.values()),
\* from position k on
SumTargets(valid_goals, k) ==
    IF k > Len(valid_goals) THEN Zero
    ELSE RatAdd(monthly_target(valid_goals[k]), SumTargets(valid_goals, k + 1))

\* allocated[name] = value on a dict
DictSet(dict, key, value) ==
    [n \in DOMAIN dict \cup {key} |-> IF n = key THEN value ELSE dict[n]]

\* the key of a goal in the allocation: g["goalName"]
allocation_key(g) == g.goalName

RECURSIVE Allocate(_, _, _, _, _)
\* lines 92-95: the loop over valid_goals from position k on
Allocate(allocated, valid_goals, k, total_monthly_target, total_savings) ==
    IF k > Len(valid_goals) THEN allocated
    ELSE Allocate(DictSet(allocated, allocation_key(valid_goals[k]),
                          RatMul(RatDiv(monthly_target(valid_goals[k]),
                                        total_monthly_target),
                                 total_savings)),
                  valid_goals, k + 1, total_monthly_target, total_savings)

IsValidGoal(g) == g.timeframe > 0

\* an allocation that returns early only when there is no valid goal, and
\* gives every valid goal nothing when the monthly targets sum to 0
allocate_unless_no_valid_goal(total_savings, goals) ==
    LET valid_goals == SelectSeq(goals, IsValidGoal)
        total_monthly_target == SumTargets(valid_goals, 1)
    IN  IF valid_goals = <<>> THEN <<>>
        ELSE IF total_monthly_target = Zero
        THEN [n \in {allocation_key(valid_goals[k]) : k \in 1..Len(valid_goals)} |-> Zero]
        ELSE Allocate(<<>>, valid_goals, 1, total_monthly_target, total_savings)

\* allocate_savings_to_goals; goals is the dict of get_user_goals in its
\* insertion order, a sequence of [_id, goalName, targetAmount, timeframe]
allocate_savings_to_goals(total_savings, goals) ==
    LET valid_goals == SelectSeq(goals, IsValidGoal)
        total_monthly_target == SumTargets(valid_goals, 1)
    IN  IF total_monthly_target = Zero THEN <<>>
        ELSE Allocate(<<>>, valid_goals, 1, total_monthly_target, total_savings)

\* the goals the user can have entered
GoalNames == {"Car", "Trip"}
TargetAmounts == {-200, 0, 200, 800}
Timeframes == {-2, 0, 1, 4}
GoalChoices == [goalName : GoalNames, targetAmount : TargetAmounts, timeframe : Timeframes]
\* the goals dict: the k-th goal inserted has _id k
GoalsOf(choice) ==
    [k \in 1..Len(choice) |->
        [_id |-> k, goalName |-> choice[k].goalName,
         targetAmount |-> choice[k].targetAmount, timeframe |-> choice[k].timeframe]]
GoalDicts == {GoalsOf(c) : c \in UNION {[1..n -> GoalChoices] : n \in 0..MaxGoals}}
\* the total savings potential handed to the allocation
SavingsChoices == {Rat(500, 1), Rat(185, 2)}

InitAllocate ==
    /\ program = "allocate"
    /\ month = 1
    /\ raw_collection = {} /\ manual_collection = {}
    /\ processed_collection = {} /\ categorized_collection = {}
    /\ combined_collection = {} /\ training_collection = <<>>
    /\ pickles = NoPickles
    /\ processed_ids = {}
    /\ clf = Unfitted
    /\ last_sms_count = 0 /\ last_manual_count = 0
    /\ lock = "free"
    /\ rt_pc = "off" /\ mo_pc = "off"
    /\ current_sms_count = 0 /\ current_manual_count = 0
    /\ new_sms = {} /\ pending = {}
    /\ rt_log = "none"
    /\ last_analysis_month = 0 /\ current_month = 0
    /\ cl_in \in [total_savings : SavingsChoices, goals : GoalDicts]
    /\ cl_out = NoResult
    /\ goals_collection = <<>> /\ recommendation_collection = {}
    /\ insights_collection = <<>>

\* one call allocate_savings_to_goals(total_savings, goals)
AllocateCall ==
    /\ program = "allocate"
    /\ ~cl_out.applied
    /\ cl_out' = [applied |-> TRUE,
                  allocated |-> allocate_savings_to_goals(cl_in.total_savings, cl_in.goals)]
    /\ UNCHANGED <<cl_in, ba_vars, program, month, db_vars, rt_vars, mo_vars, lock>>

NextAllocate == AllocateCall

SpecAllocate == InitAllocate /\ [][NextAllocate]_vars

(***************************************************************************)
(* The savings potential: analyze_historical_spending,                     *)
(* set_budget_constraints and calculate_savings_potential.                 *)
(***************************************************************************)
\* the largest number of rows of Cleaned_Classified.csv
MaxRows == 2

excluded_categories == {"Healthcare", "Education", "Essentials"}
TransferCategory == "Savings & Transfers"

reducible_categories ==
    ("Entertainment & Lifestyle" :> Rat(8, 10)) @@ ("Food & Dining" :> Rat(9, 10)) @@
    ("Shopping" :> Rat(8, 10)) @@ ("Miscellaneous" :> Rat(7, 10)) @@
    ("Subscriptions & Services" :> Rat(9, 10)) @@ ("Travel & Transportation" :> Rat(9, 10))

\* self.reducible_categories.get(category, 1.0)
FactorOf(category) ==
    IF category \in DOMAIN reducible_categories THEN reducible_categories[category]
    ELSE Rat(1, 1)

RECURSIVE SumAmounts(_, _, _)
\* groupby('Category')['Amount'].sum() for one category, from row k on
SumAmounts(df, category, k) ==
    IF k > Len(df) THEN 0
    ELSE (IF df[k].Category = category THEN df[k].Amount ELSE 0)
         + SumAmounts(df, category, k + 1)

\* a selection that drops the excluded categories only
IsNotExcludedRow(row) == row.Category \notin excluded_categories

IsBudgetedRow(row) ==
    row.Category # TransferCategory /\ row.Category \notin excluded_categories

\* analyze_historical_spending on the rows of the corpus
analyze_historical_spending(rows) ==
    LET df == SelectSeq(rows, IsBudgetedRow)
        dates == {df[k].Date : k \in 1..Len(df)}
    IN  [c \in {df[k].Category : k \in 1..Len(df)} |->
            Rat(SumAmounts(df, c, 1) * 30, Cardinality(dates))]

set_budget_constraints(monthly_spending) ==
    [c \in {x \in DOMAIN monthly_spending : x \notin excluded_categories} |->
        RatMul(monthly_spending[c], FactorOf(c))]

RECURSIVE SumValues(_, _)
\* sum(savings.values())
SumValues(keys, savings) ==
    IF keys = {} THEN Zero
    ELSE LET k == CHOOSE x \in keys : TRUE
         IN  RatAdd(savings[k], SumValues(keys \ {k}, savings))

calculate_savings_potential(monthly_spending, budget_constraints) ==
    LET cats == {c \in DOMAIN monthly_spending : c \notin excluded_categories}
        savings == [c \in cats |->
                       RatSub(monthly_spending[c],
                              IF c \in DOMAIN budget_constraints THEN budget_constraints[c]
                              ELSE monthly_spending[c])]
    IN  SumValues(cats, savings)

\* the rows the corpus can hold: a refund is a negative amount
CorpusDates == {"2024-10-01", "2024-10-02"}
CorpusAmounts == {-100, 50, 2500}
CorpusCategories == {"Shopping", "Healthcare", "Savings & Transfers", "Rent"}
CorpusRows == [Date : CorpusDates, Amount : CorpusAmounts, Category : CorpusCategories]
CorpusChoices == UNION {[1..n -> CorpusRows] : n \in 0..MaxRows}

InitSavings ==
    /\ program = "savings"
    /\ month = 1
    /\ raw_collection = {} /\ manual_collection = {}
    /\ processed_collection = {} /\ categorized_collection = {}
    /\ combined_collection = {} /\ training_collection = <<>>
    /\ pickles = NoPickles
    /\ processed_ids = {}
    /\ clf = Unfitted
    /\ last_sms_count = 0 /\ last_manual_count = 0
    /\ lock = "free"
    /\ rt_pc = "off" /\ mo_pc = "off"
    /\ current_sms_count = 0 /\ current_manual_count = 0
    /\ new_sms = {} /\ pending = {}
    /\ rt_log = "none"
    /\ last_analysis_month = 0 /\ current_month = 0
    /\ cl_in \in [rows : CorpusChoices]
    /\ cl_out = NoResult
    /\ goals_collection = <<>> /\ recommendation_collection = {}
    /\ insights_collection = <<>>

\* lines 28-30 of run_monthly_analysis
SavingsCall ==
    /\ program = "savings"
    /\ ~cl_out.applied
    /\ LET monthly_spending == analyze_historical_spending(cl_in.rows)
           budget_constraints == set_budget_constraints(monthly_spending)
       IN  cl_out' = [applied |-> TRUE,
                      monthly_spending |-> monthly_spending,
                      budget_constraints |-> budget_constraints,
                      total_savings |->
                          calculate_savings_potential(monthly_spending, budget_constraints)]
    /\ UNCHANGED <<cl_in, ba_vars, program, month, db_vars, rt_vars, mo_vars, lock>>

NextSavings == SavingsCall

SpecSavings == InitSavings /\ [][NextSavings]_vars

(***************************************************************************)
(* The start of the classifier in TransactionProcessor.__init__, with the  *)
(* files it depends on: the three pickles and the default corpus.          *)
(***************************************************************************)
\* the three pickle.load calls succeed
LoadsAll(p) == p.model # <<>> /\ p.vectorizer # <<>> /\ p.label_encoder # <<>>

\* initialize_ml_components: corpus_ok says whether pd.read_csv finds
\* Cleaned_Classified.csv, dump_ok whether train_model can write the pickles.
\* An exception inside the except clause of initialize_model is not caught.
initialize_ml_components(p, corpus_ok, dump_ok) ==
    IF LoadsAll(p) \/ (corpus_ok /\ dump_ok)
    THEN [fatal |-> FALSE, clf |-> initialize_model(p), pickles |-> PicklesAfterInit(p)]
    ELSE [fatal |-> TRUE,
          clf |-> IF corpus_ok THEN train_model(DefaultFit) ELSE Unfitted,
          pickles |-> p]

\* a pickle file: missing or unreadable, or holding the component of a fit
PickleFiles == {<<>>, <<DefaultFit>>, <<CorrectedFit>>}

InitStart ==
    /\ program = "start"
    /\ month = 1
    /\ raw_collection = {} /\ manual_collection = {}
    /\ processed_collection = {} /\ categorized_collection = {}
    /\ combined_collection = {} /\ training_collection = <<>>
    /\ pickles \in [model : PickleFiles, vectorizer : PickleFiles,
                    label_encoder : PickleFiles]
    /\ processed_ids = {}
    /\ clf = Unfitted
    /\ last_sms_count = 0 /\ last_manual_count = 0
    /\ lock = "free"
    /\ rt_pc = "off" /\ mo_pc = "off"
    /\ current_sms_count = 0 /\ current_manual_count = 0
    /\ new_sms = {} /\ pending = {}
    /\ rt_log = "none"
    /\ last_analysis_month = 0 /\ current_month = 0
    /\ cl_in \in [corpus_ok : BOOLEAN, dump_ok : BOOLEAN]
    /\ cl_out = NoResult
    /\ goals_collection = <<>> /\ recommendation_collection = {}
    /\ insights_collection = <<>>

\* TransactionProcessor.__init__ up to initialize_ml_components
StartCall ==
    /\ program = "start"
    /\ ~cl_out.applied
    /\ LET r == initialize_ml_components(pickles, cl_in.corpus_ok, cl_in.dump_ok)
       IN  /\ cl_out' = [applied |-> TRUE, fatal |-> r.fatal]
           /\ clf' = r.clf
           /\ pickles' = r.pickles
           /\ rt_pc' = IF r.fatal THEN "dead" ELSE "started"
    /\ UNCHANGED <<cl_in, ba_vars, program, month, raw_collection, manual_collection,
                   processed_collection, categorized_collection, combined_collection,
                   training_collection, processed_ids, last_sms_count, last_manual_count,
                   current_sms_count, current_manual_count, new_sms, pending, rt_log,
                   mo_vars, lock>>

NextStart == StartCall

SpecStart == InitStart /\ [][NextStart]_vars

(***************************************************************************)
(* process_single_sms on messages of every kind the filter tells apart.    *)
(***************************************************************************)
\* messages with what a reader finds in them: a transaction-indicator phrase,
\* a promotional phrase
FilterTable ==
    <<[body |-> "INR 2500 DEBITED for shopping", indicator |-> TRUE,
       promotional |-> FALSE],
      [body |-> "Hurry! Rs. 100 cashback credited, offer ends", indicator |-> TRUE,
       promotional |-> TRUE],
      [body |-> "Your OTP is 4321", indicator |-> FALSE, promotional |-> FALSE],
      [body |-> "Flat 20% Discount on shoes", indicator |-> FALSE,
       promotional |-> TRUE],
      [body |-> "Payment Successful: Rs 3,000 at store", indicator |-> TRUE,
       promotional |-> FALSE],
      [body |-> "Rs 50 received, CLICK HERE for more", indicator |-> TRUE,
       promotional |-> TRUE],
      [body |-> "Amount Sent Rs 10 to Ravi", indicator |-> TRUE,
       promotional |-> FALSE],
      [body |-> "Thanks for Recharge of Rs 99", indicator |-> FALSE,
       promotional |-> TRUE],
      [body |-> "Rs 20 debited, special Offers inside", indicator |-> TRUE,
       promotional |-> TRUE],
      [body |-> "Your bill of Rs 9000 is due", indicator |-> FALSE,
       promotional |-> FALSE],
      [body |-> "", indicator |-> FALSE, promotional |-> FALSE]>>

\* the raw_sms document of the call
FilterDoc(body) ==
    [_id |-> 1, body |-> body, address |-> "VM-BANK",
     readable_date |-> "2024-11-02 10:15:00"]

InitFilter ==
    /\ program = "filter"
    /\ month = 1
    /\ raw_collection = {} /\ manual_collection = {}
    /\ processed_collection = {} /\ categorized_collection = {}
    /\ combined_collection = {} /\ training_collection = <<>>
    /\ pickles = NoPickles
    /\ processed_ids = {}
    /\ clf \in ClassifierStates
    /\ last_sms_count = 0 /\ last_manual_count = 0
    /\ lock = "free"
    /\ rt_pc = "off" /\ mo_pc = "off"
    /\ current_sms_count = 0 /\ current_manual_count = 0
    /\ new_sms = {} /\ pending = {}
    /\ rt_log = "none"
    /\ last_analysis_month = 0 /\ current_month = 0
    /\ cl_in \in {FilterTable[k] : k \in DOMAIN FilterTable}
    /\ cl_out = NoResult
    /\ goals_collection = <<>> /\ recommendation_collection = {}
    /\ insights_collection = <<>>

\* process_single_sms(sms): returned is its result, raised whether
\* save_transaction ended it with an exception
FilterCall(predicted, outcome) ==
    /\ program = "filter"
    /\ ~cl_out.applied
    /\ LET sms == FilterDoc(cl_in.body)
           st == [processed |-> processed_collection,
                  categorized |-> categorized_collection,
                  ids |-> processed_ids, errors |-> {}, raised |-> FALSE]
       IN  IF is_filtered(sms.body)
           THEN /\ cl_out' = [applied |-> TRUE, returned |-> FALSE, raised |-> FALSE]
                /\ UNCHANGED <<processed_collection, categorized_collection>>
           ELSE LET parsed == parse_transaction_details(sms.body)
                    category == classify_transaction(clf, sms.body,
                                    parsed.transaction_type, predicted).category
                    txn == transaction_data(sms, ToFloat(parsed.amount),
                               parsed.recipient, parsed.transaction_type, sms.body,
                               NowString(month))
                    saved == save_transaction(st, txn, category, outcome)
                IN  /\ processed_collection' = saved.processed
                    /\ categorized_collection' = saved.categorized
                    /\ cl_out' = [applied |-> TRUE, returned |-> ~saved.raised,
                                  raised |-> saved.raised]
    /\ UNCHANGED <<cl_in, ba_vars, program, month, raw_collection, manual_collection,
                   combined_collection, training_collection, pickles, rt_vars,
                   mo_vars, lock>>

NextFilter ==
    \E predicted \in {Raise} \cup CorpusLabels, outcome \in SaveOutcomes :
        FilterCall(predicted, outcome)

SpecFilter == InitFilter /\ [][NextFilter]_vars

(***************************************************************************)
(* What the loop of 1.py decides for one message: filter, extraction,      *)
(* classification, escalation.                                             *)
(***************************************************************************)
\* lines 175-194 for one message; predicted is what the model answers
review_decision(c, sms_body, predicted) ==
    IF is_filtered(sms_body)
    THEN [filtered |-> TRUE, category |-> "", prompted |-> FALSE]
    ELSE LET parsed == parse_transaction_details(sms_body)
             amount_float == ToFloat(parsed.amount)
             category == classify_transaction(c, sms_body, parsed.transaction_type,
                                              predicted).category
         IN  [filtered |-> FALSE, category |-> category,
              prompted |-> Escalated(category, amount_float)]

\* messages around the threshold, with their amount in thousandths and
\* whether the filter discards them
EscalationTable ==
    <<[body |-> "Payment successful: Rs 2000 at store", amount |-> 2000000,
       filtered |-> FALSE],
      [body |-> "Payment successful: Rs 2000.01 at store", amount |-> 2000010,
       filtered |-> FALSE],
      [body |-> "INR 2500 debited for shopping, sent to Amazon", amount |-> 2500000,
       filtered |-> FALSE],
      [body |-> "INR 1,999 debited, sent to Ravi", amount |-> 1999000,
       filtered |-> FALSE],
      [body |-> "Rs. 3,000 credited to your account", amount |-> 3000000,
       filtered |-> FALSE],
      [body |-> "Hurry! Rs. 5000 debited, offer ends", amount |-> 5000000,
       filtered |-> TRUE],
      [body |-> "Your bill of Rs 9000 is due", amount |-> 9000000,
       filtered |-> TRUE],
      [body |-> "Received Rs 2,500 from Ravi", amount |-> 2500000,
       filtered |-> FALSE],
      [body |-> "Amount sent: INR 10000", amount |-> 10000000,
       filtered |-> FALSE],
      [body |-> "Rs 150 debited at cafe", amount |-> 150000,
       filtered |-> FALSE],
      [body |-> "payment successful, Rs. 2,000.00 paid", amount |-> 2000000,
       filtered |-> FALSE],
      [body |-> "Discount! INR 2500 sent to you", amount |-> 2500000,
       filtered |-> TRUE]>>

InitEscalate ==
    /\ program = "escalate"
    /\ month = 1
    /\ raw_collection = {} /\ manual_collection = {}
    /\ processed_collection = {} /\ categorized_collection = {}
    /\ combined_collection = {} /\ training_collection = <<>>
    /\ pickles = NoPickles
    /\ processed_ids = {}
    /\ clf \in ClassifierStates
    /\ last_sms_count = 0 /\ last_manual_count = 0
    /\ lock = "free"
    /\ rt_pc = "off" /\ mo_pc = "off"
    /\ current_sms_count = 0 /\ current_manual_count = 0
    /\ new_sms = {} /\ pending = {}
    /\ rt_log = "none"
    /\ last_analysis_month = 0 /\ current_month = 0
    /\ cl_in \in {EscalationTable[k] : k \in DOMAIN EscalationTable}
    /\ cl_out = NoResult
    /\ goals_collection = <<>> /\ recommendation_collection = {}
    /\ insights_collection = <<>>

\* one pass of the loop body over the message
EscalateCall(predicted) ==
    /\ program = "escalate"
    /\ ~cl_out.applied
    /\ LET r == review_decision(clf, cl_in.body, predicted)
       IN  cl_out' = [applied |-> TRUE, filtered |-> r.filtered,
                      category |-> r.category, prompted |-> r.prompted]
    /\ UNCHANGED <<cl_in, ba_vars, program, month, db_vars, rt_vars, mo_vars, lock>>

NextEscalate == \E predicted \in AllOutcomes : EscalateCall(predicted)

SpecEscalate == InitEscalate /\ [][NextEscalate]_vars

(***************************************************************************)
(* The classifier through its life: initialize, retrain, classify, with    *)
(* the steps of a retrain that can fail.                                   *)
(***************************************************************************)
\* model = LogisticRegression(max_iter=1000) before model.fit has returned:
\* an object that is not None and raises NotFittedError in predict
NotFitted == {[body |-> "<not fitted>", category |-> Raise]}

\* a fit on the examples alone, Cleaned_Classified.csv being unreadable
NoCorpus == [body |-> "<no corpus>", category |-> Raise]
ExamplesOnly(examples) == examples \cup {NoCorpus}

\* the labels LogisticRegression.fit is given
ClassesOf(examples, corpus_ok) ==
    {e.category : e \in examples} \cup (IF corpus_ok THEN CorpusLabels ELSE {})

\* where the three pickle.dump calls can fail
DumpOutcomes == {"ok", "fail_model", "fail_vectorizer", "fail_label_encoder"}

\* prepare_model / train_model statement by statement on classifier c and
\* pickle files p: label_encoder.fit, vectorizer.fit_transform, the new
\* model object, model.fit (ValueError with fewer than two classes), the
\* three dumps
prepare_model(c, p, examples, corpus_ok, dump) ==
    LET fit == IF corpus_ok THEN examples ELSE ExamplesOnly(examples)
    IN  IF Cardinality(ClassesOf(examples, corpus_ok)) < 2
        THEN [clf |-> [trained |-> TRUE, model |-> NotFitted, vectorizer |-> fit,
                       label_encoder |-> fit],
              pickles |-> p, raised |-> TRUE]
        ELSE [clf |-> Fitted(fit),
              pickles |->
                  [model |-> IF dump = "fail_model" THEN p.model ELSE <<fit>>,
                   vectorizer |-> IF dump \in {"fail_model", "fail_vectorizer"}
                                  THEN p.vectorizer ELSE <<fit>>,
                   label_encoder |-> IF dump = "ok" THEN <<fit>> ELSE p.label_encoder],
              raised |-> dump # "ok"]

\* what predict and inverse_transform can give for classifier c
TrainerOutcomes(c, body) ==
    IF c.model = NotFitted THEN {Raise}
    ELSE IF NoCorpus \in c.model \cup c.vectorizer \cup c.label_encoder
    THEN {Raise} \cup {e.category : e \in c.label_encoder}
    ELSE PredictOutcomes(c, body)

\* the messages the human corrects and the categories they give
TrainerBodies == {BodyTable[1], BodyTable[3]}
TrainerCategories == {"Shopping", "Travel & Transportation"}

InitTrainer ==
    /\ program = "trainer"
    /\ month = 1
    /\ raw_collection = {} /\ manual_collection = {}
    /\ processed_collection = {} /\ categorized_collection = {}
    /\ combined_collection = {} /\ training_collection = <<>>
    /\ pickles \in [model : PickleFiles, vectorizer : PickleFiles,
                    label_encoder : PickleFiles]
    /\ processed_ids = {}
    /\ clf = Unfitted
    /\ last_sms_count = 0 /\ last_manual_count = 0
    /\ lock = "free"
    /\ rt_pc = "new" /\ mo_pc = "off"
    /\ current_sms_count = 0 /\ current_manual_count = 0
    /\ new_sms = {} /\ pending = {}
    /\ rt_log = "none"
    /\ last_analysis_month = 0 /\ current_month = 0
    /\ cl_in \in [corpus_ok : BOOLEAN]
    /\ cl_out = NoResult
    /\ goals_collection = <<>> /\ recommendation_collection = {}
    /\ insights_collection = <<>>

\* initialize_model / initialize_training_data
TrInitialize(dump_ok) ==
    /\ program = "trainer" /\ rt_pc = "new"
    /\ LET r == initialize_ml_components(pickles, cl_in.corpus_ok, dump_ok)
       IN  /\ clf' = r.clf
           /\ pickles' = r.pickles
           /\ rt_pc' = IF r.fatal THEN "dead" ELSE "ready"
    /\ cl_out' = [applied |-> TRUE, call |-> "initialize", before |-> clf,
                  category |-> ""]
    /\ UNCHANGED <<cl_in, ba_vars, program, month, raw_collection, manual_collection,
                   processed_collection, categorized_collection, combined_collection,
                   training_collection, processed_ids, last_sms_count, last_manual_count,
                   current_sms_count, current_manual_count, new_sms, pending, rt_log,
                   mo_vars, lock>>

\* update_training_data(sms_body, correct_category): the example is stored
\* and the model is retrained; the exception of a failed retrain is caught
TrRetrain(body, category, dump) ==
    /\ program = "trainer" /\ rt_pc = "ready"
    /\ Len(training_collection) < MaxExamples
    /\ training_collection' =
           Append(training_collection, [body |-> body, category |-> category])
    /\ LET r == prepare_model(clf, pickles, ExamplesOf(training_collection'),
                              cl_in.corpus_ok, dump)
       IN  /\ clf' = r.clf
           /\ pickles' = r.pickles
    /\ cl_out' = [applied |-> TRUE, call |-> "retrain", before |-> clf, category |-> ""]
    /\ UNCHANGED <<cl_in, ba_vars, program, month, raw_collection, manual_collection,
                   processed_collection, categorized_collection, combined_collection,
                   processed_ids, last_sms_count, last_manual_count, rt_pc,
                   current_sms_count, current_manual_count, new_sms, pending, rt_log,
                   mo_vars, lock>>

\* classify_transaction(body, transaction_type)
TrClassify(i, predicted) ==
    /\ program = "trainer" /\ rt_pc = "ready"
    /\ predicted \in TrainerOutcomes(clf, BodyTable[i])
    /\ cl_out' = [applied |-> TRUE, call |-> "classify", before |-> clf,
                  category |-> classify_transaction(
                                   clf, BodyTable[i],
                                   ParsedOf[BodyTable[i]].transaction_type,
                                   predicted).category]
    /\ UNCHANGED <<cl_in, ba_vars, program, month, db_vars, rt_vars, mo_vars, lock>>

NextTrainer ==
    \/ \E dump_ok \in BOOLEAN : TrInitialize(dump_ok)
    \/ \E body \in TrainerBodies, category \in TrainerCategories, dump \in DumpOutcomes :
          TrRetrain(body, category, dump)
    \/ \E i \in {1, 3}, predicted \in AllOutcomes : TrClassify(i, predicted)

SpecTrainer == InitTrainer /\ [][NextTrainer]_vars

(***************************************************************************)
(* The budget run: BudgetAnalyzer.run_monthly_analysis with its two        *)
(* stores, aicategories and airecommendations.                             *)
(***************************************************************************)
\* a float in hundredths, rounded half to even: round(x, 2) and f"{x:.2f}"
Hundredths(r) ==
    LET a == Abs(r[1]) * 100
        q == a \div r[2]
        rem == a % r[2]
        up == 2 * rem > r[2] \/ (2 * rem = r[2] /\ q % 2 = 1)
        h == IF up THEN q + 1 ELSE q
    IN  IF r[1] < 0 THEN -h ELSE h

\* a loading that keeps every goal
IsAnyGoal(goal) == TRUE

IsUserGoal(goal) == goal.goalName \notin excluded_categories

\* get_user_goals on well-formed goal documents
get_user_goals(goal_docs) == SelectSeq(goal_docs, IsUserGoal)

RECURSIVE SumOfAmounts(_)
\* the amounts of a set of records added up, in thousandths
SumOfAmounts(data) ==
    IF data = {} THEN 0
    ELSE LET d == CHOOSE x \in data : TRUE
         IN  d.Amount + SumOfAmounts(data \ {d})

\* get_current_spending: rupees per category over the debited records
get_current_spending(categorized) ==
    LET data == {d \in categorized : d.TransactionType = "debited"
                                     /\ d.Category \notin excluded_categories}
    IN  [cat \in {d.Category : d \in data} |->
            Rat(SumOfAmounts({d \in data : d.Category = cat}), 1000)]

\* the records save_recommendations inserts
RecommendationDocs(current, recommended) ==
    {[_id |-> category, category |-> category,
      current |-> Hundredths(IF category \in DOMAIN current THEN current[category]
                             ELSE Zero),
      recommended |-> Hundredths(recommended[category])] :
        category \in DOMAIN recommended}

\* save_recommendations; insert_fails: the first insert_one raises
save_recommendations(store, current, recommended, insert_fails) ==
    IF insert_fails /\ DOMAIN recommended # {} THEN {}
    ELSE RecommendationDocs(current, recommended)

RECURSIVE ItemsFrom(_, _, _)
\* allocated.items(): the names in the order of their first assignment
ItemsFrom(valid_goals, k, seen) ==
    IF k > Len(valid_goals) THEN <<>>
    ELSE IF valid_goals[k].goalName \in seen THEN ItemsFrom(valid_goals, k + 1, seen)
    ELSE <<valid_goals[k].goalName>>
         \o ItemsFrom(valid_goals, k + 1, seen \cup {valid_goals[k].goalName})

items(allocated, goals) ==
    IF DOMAIN allocated = {} THEN <<>>
    ELSE ItemsFrom(SelectSeq(goals, IsValidGoal), 1, {})

\* next((g for g in goals.values() if g["goalName"] == goal_name), None)
FirstNamed(goals, goal_name) ==
    goals[CHOOSE k \in DOMAIN goals :
            /\ goals[k].goalName = goal_name
            /\ \A j \in 1..(k - 1) : goals[j].goalName # goal_name]

\* goal["targetAmount"] / goal["timeframe"] raises ZeroDivisionError
InsightsRaise(allocated, goals) ==
    \E name \in DOMAIN allocated : FirstNamed(goals, name).timeframe = 0

RECURSIVE SimLines(_, _, _, _)
SimLines(names, k, allocated, goals) ==
    IF k > Len(names) THEN <<>>
    ELSE LET allocated_amt == allocated[names[k]]
             target == monthly_target(FirstNamed(goals, names[k]))
         IN  (IF RatLess(allocated_amt, target)
              THEN <<[goal |-> names[k], allocated |-> Hundredths(allocated_amt),
                      target |-> Hundredths(target)]>>
              ELSE <<>>) \o SimLines(names, k + 1, allocated, goals)

RECURSIVE RecLines(_, _, _, _)
RecLines(names, k, allocated, goals) ==
    IF k > Len(names) THEN <<>>
    ELSE LET diff == RatSub(monthly_target(FirstNamed(goals, names[k])),
                            allocated[names[k]])
         IN  (IF RatLess(Zero, diff)
              THEN <<[goal |-> names[k], additional |-> Hundredths(diff)]>>
              ELSE <<>>) \o RecLines(names, k + 1, allocated, goals)

\* the list generate_insights builds, when no division raises
InsightDocs(total_savings, allocated, goals) ==
    LET names == items(allocated, goals)
        allocated_lines == [k \in 1..Len(names) |->
                               [goal |-> names[k],
                                amount |-> Hundredths(allocated[names[k]])]]
        sim_lines == SimLines(names, 1, allocated, goals)
        recs == RecLines(names, 1, allocated, goals)
    IN  <<[_id |-> "summary", title |-> "Total Savings Potential",
           description |-> <<Hundredths(total_savings)>>],
          [_id |-> "allocated", title |-> "Allocated Savings",
           description |-> IF allocated_lines # <<>> THEN allocated_lines
                           ELSE <<"No goals set">>]>>
        \o (IF sim_lines # <<>>
            THEN <<[_id |-> "simulation", title |-> "Savings Simulation",
                    description |-> sim_lines]>>
            ELSE <<>>)
        \o (IF recs # <<>>
            THEN <<[_id |-> "recommendations", title |-> "Recommendations",
                    description |-> Append(recs, "Consider reducing spending")]>>
            ELSE <<>>)

\* generate_insights: the store afterwards and whether it returned
generate_insights(store, total_savings, allocated, goals, fault) ==
    IF InsightsRaise(allocated, goals) \/ fault = "delete_many"
    THEN [insights |-> store, ok |-> FALSE]
    ELSE IF fault = "insert_many" THEN [insights |-> <<>>, ok |-> FALSE]
    ELSE [insights |-> InsightDocs(total_savings, allocated, goals), ok |-> TRUE]

\* where a run can be interrupted: reading the corpus, the first insert of
\* a recommendation, the delete or the insert of the insights
Faults == {"none", "read_csv", "insert_one", "delete_many", "insert_many"}

\* run_monthly_analysis: the two stores afterwards and its return value
run_monthly_analysis(goal_docs, rows, categorized, recommendations, insights, fault) ==
    IF fault = "read_csv"
    THEN [recommendations |-> recommendations, insights |-> insights, ok |-> FALSE]
    ELSE
    LET goals == get_user_goals(goal_docs)
        monthly_spending == analyze_historical_spending(rows)
        budget_constraints == set_budget_constraints(monthly_spending)
        total_savings == calculate_savings_potential(monthly_spending, budget_constraints)
        allocated_savings == allocate_savings_to_goals(total_savings, goals)
        current_spending == get_current_spending(categorized)
        saved == save_recommendations(recommendations, current_spending,
                                      budget_constraints, fault = "insert_one")
        generated == generate_insights(insights, total_savings, allocated_savings,
                                       goals, fault)
    IN  IF fault = "insert_one" /\ DOMAIN budget_constraints # {}
        THEN [recommendations |-> saved, insights |-> insights, ok |-> FALSE]
        ELSE [recommendations |-> saved, insights |-> generated.insights,
              ok |-> generated.ok]

\* the goals of this specification: a goal whose timeframe is 0 and goals
\* sharing a name are among them
BudgetGoals ==
    {[goalName |-> "Car", targetAmount |-> 200, timeframe |-> 0],
     [goalName |-> "Car", targetAmount |-> 800, timeframe |-> 1],
     [goalName |-> "Trip", targetAmount |-> 800, timeframe |-> 4],
     [goalName |-> "Trip", targetAmount |-> 800, timeframe |-> 1],
     [goalName |-> "Healthcare", targetAmount |-> 200, timeframe |-> 1]}

\* the corpora of this specification
BudgetCorpora ==
    {<<[Date |-> "2024-10-01", Amount |-> 50, Category |-> "Shopping"],
       [Date |-> "2024-10-02", Amount |-> 2500, Category |-> "Rent"]>>,
     <<[Date |-> "2024-10-01", Amount |-> 50, Category |-> "Shopping"],
       [Date |-> "2024-10-01", Amount |-> 50, Category |-> "Healthcare"]>>,
     <<[Date |-> "2024-10-01", Amount |-> 50, Category |-> "Shopping"],
       [Date |-> "2024-10-02", Amount |-> 2500, Category |-> "Savings & Transfers"]>>,
     <<[Date |-> "2024-10-01", Amount |-> 50, Category |-> "Shopping"],
       [Date |-> "2024-10-02", Amount |-> 50, Category |-> "Education"],
       [Date |-> "2024-10-03", Amount |-> 50, Category |-> "Essentials"]>>}

BudgetCategories == {"Shopping", "Healthcare"}

InitBudget ==
    /\ program = "budget"
    /\ month = 1
    /\ raw_collection = {} /\ manual_collection = {}
    /\ processed_collection = {} /\ categorized_collection = {}
    /\ combined_collection = {} /\ training_collection = <<>>
    /\ pickles = NoPickles
    /\ processed_ids = {}
    /\ clf = Unfitted
    /\ last_sms_count = 0 /\ last_manual_count = 0
    /\ lock = "free"
    /\ rt_pc = "off" /\ mo_pc = "idle"
    /\ current_sms_count = 0 /\ current_manual_count = 0
    /\ new_sms = {} /\ pending = {}
    /\ rt_log = "none"
    /\ last_analysis_month = 0 /\ current_month = 0
    /\ cl_in \in [rows : BudgetCorpora]
    /\ cl_out = NoResult
    /\ goals_collection = <<>> /\ recommendation_collection = {}
    /\ insights_collection = <<>>

\* the user adds a goal
BaAddGoal(goal) ==
    /\ program = "budget"
    /\ Len(goals_collection) < MaxGoals
    /\ goals_collection' =
           Append(goals_collection,
                  [_id |-> Len(goals_collection) + 1, goalName |-> goal.goalName,
                   targetAmount |-> goal.targetAmount, timeframe |-> goal.timeframe])
    /\ mo_pc' = "idle"
    /\ UNCHANGED <<program, month, db_vars, rt_vars, last_analysis_month, current_month,
                   lock, cl_in, cl_out, recommendation_collection, insights_collection>>

\* the pipeline stores the next message in categorized_transactions
BaStore(category) ==
    /\ program = "budget"
    /\ \E i \in RawIds :
        /\ ~FilteredOf[RawDoc(i).body]
        /\ i \notin IdsOf(categorized_collection)
        /\ \A j \in IdsOf(categorized_collection) : j < i
        /\ \A j \in 1..(i - 1) : FilteredOf[RawDoc(j).body]
                                 \/ j \in IdsOf(categorized_collection)
        /\ LET sms == RawDoc(i)
               txn == transaction_data(sms, AmountOf[sms.body],
                                       ParsedOf[sms.body].recipient,
                                       ParsedOf[sms.body].transaction_type, sms.body,
                                       month)
           IN  categorized_collection' =
                   upsert_set_on_insert(categorized_collection,
                                        categorized_data(txn, category))
    /\ mo_pc' = "idle"
    /\ UNCHANGED <<program, month, raw_collection, manual_collection, processed_collection,
                   combined_collection, training_collection, pickles, rt_vars,
                   last_analysis_month, current_month, lock, fn_vars>>

\* one call run_monthly_analysis(); cl_out keeps what it returned
BaRun(fault) ==
    /\ program = "budget"
    /\ LET r == run_monthly_analysis(goals_collection, cl_in.rows, categorized_collection,
                                     recommendation_collection, insights_collection,
                                     fault)
       IN  /\ recommendation_collection' = r.recommendations
           /\ insights_collection' = r.insights
           /\ cl_out' = [applied |-> TRUE, ok |-> r.ok]
    /\ mo_pc' = "ran"
    /\ UNCHANGED <<program, month, db_vars, rt_vars, last_analysis_month, current_month,
                   lock, cl_in, goals_collection>>

NextBudget ==
    \/ \E goal \in BudgetGoals : BaAddGoal(goal)
    \/ \E category \in BudgetCategories : BaStore(category)
    \/ \E fault \in Faults : BaRun(fault)

SpecBudget == InitBudget /\ [][NextBudget]_vars

(***************************************************************************)
(* main.py, run_monthly_analysis_loop together with the analysis it calls: *)
(* the periodic loop on its own, with what run_monthly_analysis returned.  *)
(***************************************************************************)
\* the goals collection when the loop starts
PeriodicGoals ==
    {<<>>,
     <<[_id |-> 1, goalName |-> "Trip", targetAmount |-> 800, timeframe |-> 4]>>,
     <<[_id |-> 1, goalName |-> "Car", targetAmount |-> 200, timeframe |-> 0],
       [_id |-> 2, goalName |-> "Car", targetAmount |-> 800, timeframe |-> 1]>>}

InitPeriodic ==
    /\ program = "periodic"
    /\ month = 1
    /\ raw_collection = {} /\ manual_collection = {}
    /\ processed_collection = {} /\ categorized_collection = {}
    /\ combined_collection = {} /\ training_collection = <<>>
    /\ pickles = NoPickles
    /\ processed_ids = {}
    /\ clf = Unfitted
    /\ last_sms_count = 0 /\ last_manual_count = 0
    /\ lock = "free"
    /\ rt_pc = "off" /\ mo_pc = "check"
    /\ current_sms_count = 0 /\ current_manual_count = 0
    /\ new_sms = {} /\ pending = {}
    /\ rt_log = "none"
    /\ last_analysis_month = 0 /\ current_month = 0
    /\ cl_in \in [rows : BudgetCorpora]
    /\ cl_out = NoResult
    /\ goals_collection \in PeriodicGoals
    /\ recommendation_collection = {}
    /\ insights_collection = <<>>

\* a loop that records the month only when the analysis returned True
recorded_on_success(current, last, ok) == IF ok THEN current ELSE last

\* line 65: last_analysis_month = current_month, whatever was returned
recorded_month(current, last, ok) == current

\* lines 60-62: the month is read and compared
MpCheck ==
    /\ program = "periodic" /\ mo_pc = "check"
    /\ current_month' = month
    /\ mo_pc' = IF month # last_analysis_month THEN "acquire" ELSE "sleep"
    /\ UNCHANGED <<fn_vars, program, month, db_vars, rt_vars, lock, last_analysis_month>>

\* lines 62-65: with self.lock, run_monthly_analysis() and the assignment;
\* cl_out keeps what the analysis returned and the month it was run for
MpAnalysis(fault) ==
    /\ program = "periodic" /\ mo_pc = "acquire"
    /\ CanAcquire("mo")
    /\ LET r == run_monthly_analysis(goals_collection, cl_in.rows, categorized_collection,
                                     recommendation_collection, insights_collection,
                                     fault)
       IN  /\ recommendation_collection' = r.recommendations
           /\ insights_collection' = r.insights
           /\ cl_out' = [applied |-> TRUE, ok |-> r.ok, month |-> current_month]
           /\ last_analysis_month' =
                  recorded_month(current_month, last_analysis_month, r.ok)
    /\ mo_pc' = "sleep"
    /\ UNCHANGED <<program, month, db_vars, rt_vars, lock, current_month, cl_in,
                   goals_collection>>

\* time.sleep(3600) is over
MpWake ==
    /\ program = "periodic" /\ mo_pc = "sleep"
    /\ mo_pc' = "check"
    /\ UNCHANGED <<fn_vars, program, month, db_vars, rt_vars, lock, last_analysis_month,
                   current_month>>

NextPeriodic ==
    \/ MonthTick
    \/ MpCheck
    \/ \E fault \in Faults : MpAnalysis(fault)
    \/ MpWake

SpecPeriodic == InitPeriodic /\ [][NextPeriodic]_vars

(***************************************************************************)
(* One call of parse_transaction_details on a message put together from a  *)
(* currency marker and a number.                                           *)
(***************************************************************************)
Prefixes == {"", "Paid "}
Markers == {"", "INR", "Rs", "Rs.", "rs", "₹"}
Spaces == {"", " "}
Numbers == {"1500", "1,500", "75.50", "1,00,000", "1,234.56"}
\* the rest of the message, with the direction keywords it holds
SuffixTable ==
    <<[text |-> "", credit |-> FALSE, debit |-> FALSE],
      [text |-> " sent to John Doe", credit |-> FALSE, debit |-> TRUE],
      [text |-> " DEBITED from a/c 12", credit |-> FALSE, debit |-> TRUE],
      [text |-> " Received from Ravi", credit |-> TRUE, debit |-> FALSE],
      [text |-> " debited, then CREDITED back", credit |-> TRUE, debit |-> TRUE],
      [text |-> " sent and received", credit |-> TRUE, debit |-> TRUE],
      [text |-> " at the store", credit |-> FALSE, debit |-> FALSE]>>
Suffixes == {SuffixTable[k].text : k \in DOMAIN SuffixTable}
\* the keywords of a suffix
KeywordsOf(suffix) ==
    SuffixTable[CHOOSE k \in DOMAIN SuffixTable : SuffixTable[k].text = suffix]
MessageParts ==
    [prefix : Prefixes, marker : Markers, space : Spaces, number : Numbers,
     suffix : Suffixes]

\* the body of the message made of parts
BodyOf(parts) ==
    parts.prefix \o parts.marker \o parts.space \o parts.number \o parts.suffix

InitParse ==
    /\ program = "parse"
    /\ month = 1
    /\ raw_collection = {} /\ manual_collection = {}
    /\ processed_collection = {} /\ categorized_collection = {}
    /\ combined_collection = {} /\ training_collection = <<>>
    /\ pickles = NoPickles
    /\ processed_ids = {}
    /\ clf = Unfitted
    /\ last_sms_count = 0 /\ last_manual_count = 0
    /\ lock = "free"
    /\ rt_pc = "off" /\ mo_pc = "off"
    /\ current_sms_count = 0 /\ current_manual_count = 0
    /\ new_sms = {} /\ pending = {}
    /\ rt_log = "none"
    /\ last_analysis_month = 0 /\ current_month = 0
    /\ cl_in \in MessageParts
    /\ cl_out = NoResult
    /\ goals_collection = <<>> /\ recommendation_collection = {}
    /\ insights_collection = <<>>

\* one call parse_transaction_details(body)
ParseCall ==
    /\ program = "parse"
    /\ ~cl_out.applied
    /\ LET parsed == parse_transaction_details(BodyOf(cl_in))
       IN  cl_out' = [applied |-> TRUE, amount |-> parsed.amount,
                      recipient |-> parsed.recipient,
                      transaction_type |-> parsed.transaction_type]
    /\ UNCHANGED <<cl_in, ba_vars, program, month, db_vars, rt_vars, mo_vars, lock>>

NextParse == ParseCall

SpecParse == InitParse /\ [][NextParse]_vars

(***************************************************************************)
(* Properties of the stores.                                               *)
(***************************************************************************)
OnePerId(coll) == \A d, e \in coll : d._id = e._id => d = e

\* C1: over any sequence of ingestion passes, restarts and retrains, each id
\* has at most one Transaction and at most one CategorizedTransaction record,
\* and a record, once inserted, stays in its store with every field as it was
\* first written.
C1_InsertIfAbsent ==
    [][/\ OnePerId(processed_collection') /\ OnePerId(categorized_collection')
       /\ processed_collection \subseteq processed_collection'
       /\ categorized_collection \subseteq categorized_collection']_vars

\* an id was offered a second time, a month after its Transaction was
\* written: the Transaction kept the date of the first insert
C1_Witness ==
    \E d \in processed_collection, e \in categorized_collection :
        d._id = e._id /\ d.Date # e.Date

RecordIds == IdsOf(processed_collection) \cup IdsOf(categorized_collection)

\* C2 as stated: an id has a Transaction/CategorizedTransaction record if and
\* only if it is in processed_ids, and at most one record per id exists.
C2_RecordIffProcessed ==
    /\ \A i \in RawIds \cup ManualIds : i \in RecordIds <=> i \in processed_ids
    /\ OnePerId(processed_collection) /\ OnePerId(categorized_collection)

\* C2: every id with a CategorizedTransaction record has a Transaction record
\* and is in processed_ids, and each store holds at most one record per id.
\* (Neither converse holds: a manual entry and, in 1.py, a discarded message
\* are in processed_ids without a record, and a Transaction whose second
\* insert failed is stored for an id that is not in processed_ids.)
C2_CategorizedIsProcessed ==
    /\ IdsOf(categorized_collection) \subseteq IdsOf(processed_collection)
    /\ IdsOf(categorized_collection) \subseteq processed_ids
    /\ OnePerId(processed_collection) /\ OnePerId(categorized_collection)

\* a stored message beside an id that is processed without any record
C2_Witness ==
    /\ categorized_collection # {}
    /\ processed_ids \ RecordIds # {}

PersistedIds == RecordIds \cup manual_collection

\* C3 as stated: processed_ids is at all times a superset of the ids of the
\* persisted Transaction, CategorizedTransaction and ManualEntry records.
C3_SupersetAtAllTimes == PersistedIds \subseteq processed_ids

\* C3: processed_ids holds the id of every CategorizedTransaction at all
\* times; when the process starts it is seeded with the ids of every persisted
\* Transaction and CategorizedTransaction and, in main.py, ManualEntry; and a
\* pass of the real-time loop that completes has added every manual entry
\* present when it ran.
C3_SeededAndKept ==
    /\ [](IdsOf(categorized_collection) \subseteq processed_ids)
    /\ [][Restart =>
            (RecordIds' \cup (IF program = "main" THEN manual_collection' ELSE {}))
                \subseteq processed_ids']_vars
    /\ [][(rt_pc = "acquire" /\ rt_pc' = "analysis") =>
            manual_collection \subseteq processed_ids']_vars

\* after a restart that found a manual entry and a Transaction without its
\* CategorizedTransaction in the stores
C3_Witness ==
    /\ program = "main" /\ manual_collection # {}
    /\ manual_collection \subseteq processed_ids
    /\ \E i \in IdsOf(processed_collection) \ IdsOf(categorized_collection) :
          i \in processed_ids

\* C4 as stated, for the pass of the real-time loop: when the pass is over
\* every message it was offered is in processed_ids, stored or discarded.
C4_OfferedIsMarked ==
    (program = "main" /\ rt_pc = "analysis") => new_sms \subseteq processed_ids

(***************************************************************************)
(* Properties of the two loops of main.py.                                 *)
(***************************************************************************)
\* C5: the locked section of the real-time loop and the locked section of
\* the periodic loop are never executing at the same time, and the lock is
\* held exactly while one of them is.
C5_MutualExclusion ==
    /\ ~(rt_pc = "analysis" /\ mo_pc = "analysis")
    /\ lock = "rt" <=> rt_pc = "analysis"
    /\ lock = "mo" <=> mo_pc = "analysis"

\* the periodic loop waits for the lock while the real-time loop is inside
C5_Witness == lock = "rt" /\ mo_pc = "acquire"

\* C6 as stated: every error of an iteration is followed by the extended
\* backoff sleep.
C6_ErrorThenBackoff == rt_log # "none" => rt_pc = "backoff"

\* C6: an error never ends either loop and never leaves the lock held, and
\* the next iteration can always start.  An error of the ingestion pass is
\* caught by the real-time loop, which then sleeps the extended backoff; an
\* error of the budget analysis is caught inside the analysis, and the loop
\* that ran it goes on to its ordinary sleep.
C6_LoopsSurvive ==
    /\ program = "main" => rt_pc # "dead" /\ mo_pc # "dead"
    /\ rt_log = "monitoring error" => rt_pc = "backoff" /\ lock # "rt" /\ ENABLED RtWake
    /\ rt_log = "analysis error" => rt_pc = "sleep" /\ lock # "rt" /\ ENABLED RtWake
    /\ mo_pc = "sleep" => lock # "mo" /\ ENABLED MoWake

\* the pass raised while the periodic loop was waiting for the lock
C6_Witness == rt_log = "monitoring error" /\ mo_pc = "acquire" /\ lock = "free"

(***************************************************************************)
(* Properties of classify_transaction.                                     *)
(***************************************************************************)
\* C7 as stated: a credit is classified "Savings & Transfers" in every
\* classifier state and for every model outcome, without consulting the model.
C7_CreditIsFixed ==
    (cl_out.applied /\ cl_in.transaction_type = "credited") =>
        (cl_out.category = CreditCategory /\ ~cl_out.invoked)

\* C8: with direction unknown ("N/A") the category is "Miscellaneous" in
\* every classifier state, and the model is not invoked.
C8_UnknownIsFallback ==
    (cl_out.applied /\ cl_in.transaction_type = "N/A") =>
        (cl_out.category = Fallback /\ ~cl_out.invoked)

\* a call with direction unknown on a trained classifier whose model would
\* answer another category
C8_Witness ==
    /\ cl_out.applied /\ cl_in.transaction_type = "N/A" /\ cl_in.clf.trained
    /\ Fallback \notin PredictOutcomes(cl_in.clf, cl_in.body)

(***************************************************************************)
(* Properties of the stored categories and of the aggregator.              *)
(***************************************************************************)
\* C9: a stored CategorizedTransaction has Verified = false if and only if
\* its Category is "Miscellaneous", a human override included.
C9_VerifiedIffNotFallback ==
    \A d \in categorized_collection : (~d.Verified) <=> (d.Category = Fallback)

\* a record whose category the human typed at the prompt, beside one that
\* kept the fallback
C9_Witness ==
    /\ \E d \in categorized_collection :
          d.TransactionType = "N/A" /\ d.Category # Fallback /\ d.Verified
    /\ \E d \in categorized_collection : d.Category = Fallback /\ ~d.Verified

RECURSIVE SumOf(_)
\* the sum of the amt fields of a set of [id, amt] records
SumOf(docs) ==
    IF docs = {} THEN 0
    ELSE LET d == CHOOSE d \in docs : TRUE IN d.amt + SumOf(docs \ {d})

\* the amounts that map to the renamed category c
SourcesOf(c, categorized, manual) ==
    {[id |-> d._id, amt |-> d.Amount] :
        d \in {e \in categorized : e.Category \in DOMAIN category_mapping
                                    /\ category_mapping[e.Category] = c}}
    \cup
    {[id |-> j, amt |-> ManualDoc(j).expenseAmount] :
        j \in {k \in manual : ManualDoc(k).expenseName \in DOMAIN category_mapping
                               /\ category_mapping[ManualDoc(k).expenseName] = c}}

RenamedCategories == {category_mapping[k] : k \in DOMAIN category_mapping}

\* the totals the stores call for, each passed through adjust
TotalsOf(categorized, manual, adjust(_)) ==
    {[_id |-> c, category |-> c, value |-> adjust(SumOf(SourcesOf(c, categorized, manual)))] :
        c \in {x \in RenamedCategories : SourcesOf(x, categorized, manual) # {}}}

Exact(total) == total

\* a pass of the real-time loop that ran the aggregator last
AggregatorRan == program = "main" /\ rt_pc = "acquire" /\ rt_pc' = "analysis"

\* C10 as stated: after an Aggregator run every stored total equals the sum
\* of the amounts of the records that map to its category.
C10_TotalsAreSums ==
    [][AggregatorRan =>
          combined_collection' =
              TotalsOf(categorized_collection', manual_collection', Exact)]_vars

\* C10: after an Aggregator run every stored total equals the sum, rounded
\* to two decimals, of the amounts of the CategorizedTransaction and
\* ManualEntry records whose category maps to it; a record whose category is
\* no key of the renaming table adds to no total and creates no category.
C10_TotalsAreRoundedSums ==
    [][AggregatorRan =>
          combined_collection' =
              TotalsOf(categorized_collection', manual_collection', round2)]_vars

\* totals over a manual entry and two stored messages, one of them with a
\* category the table does not know; rounding has changed a total
C10_Witness ==
    /\ program = "main" /\ rt_pc = "analysis"
    /\ \E d \in categorized_collection : d.Category \notin DOMAIN category_mapping
    /\ \E d \in categorized_collection : d.Category \in DOMAIN category_mapping
    /\ manual_collection # {} /\ manual_collection \subseteq processed_ids
    /\ \E t \in combined_collection :
          t.value # SumOf(SourcesOf(t.category, categorized_collection, manual_collection))

\* C11: the Aggregator replaces its output and is idempotent: after a run
\* the store holds exactly the totals computed from the current sources, no
\* document of an earlier run survives, and a second run with the sources
\* unchanged leaves the store as it is.
C11_ReplacesAndIdempotent ==
    (program = "aggregate" /\ rt_pc = "ran") =>
        /\ combined_collection =
               TotalsOf(categorized_collection, manual_collection, round2)
        /\ run_update_combined(combined_collection, categorized_collection,
                               manual_collection) = combined_collection

\* a run that found a category in the store which the sources no longer have
C11_Witness ==
    /\ program = "aggregate" /\ rt_pc = "ran"
    /\ combined_collection # {}
    /\ \E t \in cl_in : t._id \notin IdsOf(combined_collection)

(***************************************************************************)
(* Properties of the goal allocation.                                      *)
(***************************************************************************)
ValidGoalsOf(goals) == {k \in DOMAIN goals : goals[k].timeframe > 0}

RECURSIVE SumOver(_, _)
\* the sum of value[k] over the keys k of a finite set
SumOver(keys, value) ==
    IF keys = {} THEN Zero
    ELSE LET k == CHOOSE x \in keys : TRUE
         IN  RatAdd(value[k], SumOver(keys \ {k}, value))

\* the sum of the monthly targets of the valid goals
DenominatorOf(goals) ==
    SumOver(ValidGoalsOf(goals),
            [k \in ValidGoalsOf(goals) |-> Rat(goals[k].targetAmount, goals[k].timeframe)])

\* (monthly target / sum of the valid goals' monthly targets) x savings
ShareOf(goals, k, total_savings) ==
    RatMul(RatDiv(Rat(goals[k].targetAmount, goals[k].timeframe), DenominatorOf(goals)),
           total_savings)

\* C12 as stated: every goal with timeframe > 0 receives its proportional
\* share of the total savings potential, and a goal with timeframe <= 0
\* receives nothing and adds nothing to the denominator.
C12_EachGoalItsShare ==
    (program = "allocate" /\ cl_out.applied /\ DenominatorOf(cl_in.goals) # Zero) =>
        \A k \in DOMAIN cl_in.goals :
            IF cl_in.goals[k].timeframe > 0
            THEN /\ cl_in.goals[k].goalName \in DOMAIN cl_out.allocated
                 /\ cl_out.allocated[cl_in.goals[k].goalName] =
                        ShareOf(cl_in.goals, k, cl_in.total_savings)
            ELSE cl_in.goals[k].goalName \notin DOMAIN cl_out.allocated

\* C13 as stated: with a valid goal and a non-zero sum of monthly targets the
\* allocations sum exactly to the total savings potential, goals that share
\* a name included.
C13_AllocationsSumToSavings ==
    (program = "allocate" /\ cl_out.applied /\ ValidGoalsOf(cl_in.goals) # {}
        /\ DenominatorOf(cl_in.goals) # Zero) =>
        SumOver(DOMAIN cl_out.allocated, cl_out.allocated) = cl_in.total_savings

\* C14 as stated: the total savings potential of a budget run is never
\* negative, for every category and every historical spend value.
C14_SavingsNeverNegative ==
    (program = "savings" /\ cl_out.applied) =>
        /\ ~RatLess(cl_out.total_savings, Zero)
        /\ \A c \in DOMAIN cl_out.budget_constraints :
              ~RatLess(RatSub(cl_out.monthly_spending[c], cl_out.budget_constraints[c]), Zero)

(***************************************************************************)
(* Properties of a pass of the real-time loop.                             *)
(***************************************************************************)
\* the stores as process_single_sms finds them
StoresNow ==
    [processed |-> processed_collection, categorized |-> categorized_collection,
     ids |-> processed_ids, errors |-> {}, raised |-> FALSE]

\* the pending messages whose classification can raise
CanRaise ==
    {i \in raw_collection \ processed_ids :
        /\ ~FilteredOf[RawDoc(i).body]
        /\ Raise \in OutcomesFor(clf, RawDoc(i).body, "ok")
        /\ ClassificationRaises(clf, RawDoc(i), Raise)}

\* C15: a classification failure on one record is caught and gives that
\* record the category "Miscellaneous": the record is stored with
\* Verified = false and marked processed, no other record is touched, and the
\* pass goes on to store every other message of the batch that passes the
\* filter.
C15_ClassificationFailureIsLocal ==
    program = "main" =>
        /\ \A i \in CanRaise :
              LET r == process_single_sms(StoresNow, RawDoc(i), clf, month, Raise, "ok")
              IN  /\ ~r.raised /\ i \in r.ids
                  /\ \E d \in r.categorized :
                        /\ d._id = i /\ d.Category = Fallback /\ ~d.Verified
                        /\ r.categorized \ {d} = categorized_collection
                  /\ IdsOf(r.processed) = IdsOf(processed_collection) \cup {i}
        /\ rt_log = "classification error" =>
              /\ rt_pc \in {"analysis", "sleep"}
              /\ rt_pc = "analysis" =>
                    \A i \in new_sms :
                        ~FilteredOf[RawDoc(i).body] =>
                            i \in processed_ids /\ i \in IdsOf(categorized_collection)

\* a pass in which a classification raised has stored two messages
C15_Witness ==
    /\ program = "main" /\ rt_pc = "analysis" /\ rt_log = "classification error"
    /\ Cardinality(new_sms \cap IdsOf(categorized_collection)) >= 2
    /\ \E d \in categorized_collection :
          d._id \in new_sms /\ d.TransactionType # "N/A" /\ d.Category = Fallback /\ ~d.Verified

\* C16 as stated: classifier initialization never fails fatally: whatever
\* load fails, it ends in the Trained state and the pipeline starts.
C16_InitializationNeverFatal ==
    (program = "start" /\ cl_out.applied) =>
        (~cl_out.fatal /\ clf.trained /\ rt_pc = "started")

\* C17: after every budget run, also one that failed partway, the
\* recommendation store holds exactly one record per budgeted category of
\* that run and the insight store exactly that run's entries, so that both
\* stores come from the same run and nothing of an earlier run survives.
C17_StoresFromThisRun ==
    (program = "budget" /\ mo_pc = "ran") =>
        LET goals == get_user_goals(goals_collection)
            monthly_spending == analyze_historical_spending(cl_in.rows)
            budget_constraints == set_budget_constraints(monthly_spending)
            total_savings == calculate_savings_potential(monthly_spending,
                                                         budget_constraints)
            allocated == allocate_savings_to_goals(total_savings, goals)
        IN  /\ recommendation_collection =
                   RecommendationDocs(get_current_spending(categorized_collection),
                                      budget_constraints)
            /\ ~InsightsRaise(allocated, goals)
            /\ insights_collection = InsightDocs(total_savings, allocated, goals)

\* the same for the runs that returned True
C17_CompleteRunReplacesBoth ==
    (program = "budget" /\ mo_pc = "ran" /\ cl_out.ok) =>
        LET goals == get_user_goals(goals_collection)
            monthly_spending == analyze_historical_spending(cl_in.rows)
            budget_constraints == set_budget_constraints(monthly_spending)
            total_savings == calculate_savings_potential(monthly_spending,
                                                         budget_constraints)
            allocated == allocate_savings_to_goals(total_savings, goals)
        IN  /\ recommendation_collection =
                   RecommendationDocs(get_current_spending(categorized_collection),
                                      budget_constraints)
            /\ insights_collection = InsightDocs(total_savings, allocated, goals)

\* a run without any store fault that left new recommendations beside the
\* insights of the run before
C17_MixedStores ==
    /\ program = "budget" /\ mo_pc = "ran" /\ ~cl_out.ok
    /\ recommendation_collection # {}
    /\ insights_collection # <<>>
    /\ InsightsRaise(allocate_savings_to_goals(
                         calculate_savings_potential(
                             analyze_historical_spending(cl_in.rows),
                             set_budget_constraints(
                                 analyze_historical_spending(cl_in.rows))),
                         get_user_goals(goals_collection)),
                     get_user_goals(goals_collection))

\* C18: on the escalation path the script does not wait forever for the
\* human: a prompt that is never answered is given up, and the script goes
\* on to store the record as "Miscellaneous" and to the remaining messages.
C18_PromptIsLeft ==
    (program = "script" /\ rt_pc = "prompt") ~> (rt_pc # "prompt")

\* a prompt is open
C18_Prompting == program = "script" /\ rt_pc = "prompt"

\* the records an ingestion pass has stored in categorized_transactions
StoredByPass == categorized_collection' \ categorized_collection

\* the total of the renamed category of record d counts d: it is the rounded
\* sum over the stored records and the manual entries there were at the run
TotalIncludes(d, combined, categorized, manual) ==
    /\ d.Category \in DOMAIN category_mapping
    /\ \E t \in combined :
          /\ t._id = category_mapping[d.Category]
          /\ \E entries \in SUBSET manual :
                t.value = round2(SumOf(SourcesOf(t._id, categorized, entries)))

\* C19 as stated: whenever an ingestion pass stores a new
\* CategorizedTransaction, the Aggregator has run after the store when the
\* pass ends and the total of its renamed category includes its amount.
C19_StoredThenAggregated ==
    [][(program = "main" /\ rt_pc = "acquire") =>
          \A d \in StoredByPass :
              TotalIncludes(d, combined_collection', categorized_collection',
                            manual_collection')]_vars

\* C19: when an ingestion pass has run to its end, every
\* CategorizedTransaction it stored whose category is a key of the renaming
\* table is counted in the total of its renamed category: the Aggregator ran
\* after the last store of the pass.
C19_CompletedPassAggregates ==
    (program = "main" /\ rt_pc = "analysis") =>
        \A d \in categorized_collection :
            (d._id \in new_sms /\ d.Category \in DOMAIN category_mapping) =>
                TotalIncludes(d, combined_collection, categorized_collection,
                              manual_collection)

\* a completed pass that stored a verified record and a second record
C19_Witness ==
    /\ program = "main" /\ rt_pc = "analysis"
    /\ \E d, e \in categorized_collection :
          /\ d._id \in new_sms /\ e._id \in new_sms /\ d # e
          /\ d.Verified
          /\ TotalIncludes(d, combined_collection, categorized_collection,
                           manual_collection)

\* the number after the currency marker without its commas, "0" when the
\* message has no marker
WholeToken(parts) ==
    IF parts.marker = "" THEN "0" ELSE FilterChars(parts.number, 1, ",")

\* C20: the amount is the numeric token after the first currency marker
\* with every comma removed, also when the token has more than one comma
\* group or a comma group followed by a decimal part, and "0" when no
\* currency-prefixed token exists.
C20_AmountIsWholeToken ==
    (program = "parse" /\ cl_out.applied) => cl_out.amount = WholeToken(cl_in)

\* the same for the tokens with at most one separator
C20_OneSeparator ==
    (program = "parse" /\ cl_out.applied /\ cl_in.number \in {"1500", "1,500", "75.50"}) =>
        cl_out.amount = WholeToken(cl_in)

\* the direction the keywords of the message call for
DirectionOf(parts) ==
    IF KeywordsOf(parts.suffix).credit THEN "credited"
    ELSE IF KeywordsOf(parts.suffix).debit THEN "debited"
    ELSE "N/A"

\* C21: the direction is credit whenever the body holds "credited" or
\* "received" in any case, also beside "debited" or "sent"; it is debit when
\* the body holds "debited" or "sent" and no credit keyword; otherwise it is
\* unknown.
C21_CreditFirst ==
    (program = "parse" /\ cl_out.applied) =>
        cl_out.transaction_type = DirectionOf(cl_in)

\* a message with a credit and a debit keyword was parsed as a credit
C21_Witness ==
    /\ program = "parse" /\ cl_out.applied
    /\ KeywordsOf(cl_in.suffix).credit /\ KeywordsOf(cl_in.suffix).debit
    /\ cl_out.transaction_type = "credited"

\* C22: under fairness of the real-time loop every raw message and every
\* manual entry that is added while the loop runs is processed in the end:
\* the change of the counts is detected, a full pass runs and the id of the
\* record is in processed_ids.  The stores only grow, so this says that
\* again and again every record there is has its id in processed_ids.
C22_AddedIsProcessed ==
    []<>(raw_collection \cup manual_collection \subseteq processed_ids)

\* the same for the manual entries and the messages that pass the filter
C22_KeptIsProcessed ==
    []<>({i \in raw_collection : ~FilteredOf[RawDoc(i).body]} \cup manual_collection
            \subseteq processed_ids)

\* C23: the periodic loop runs the budget analysis once for each calendar
\* month it observes, the month of its start included: it leaves a check
\* for the analysis only when the month it observes is not the month it
\* analysed last, the analysis records the observed month, nothing else
\* changes the record, and after every change of the month the analysis of
\* the new month is run.
C23_OncePerObservedMonth ==
    /\ [][program = "main" =>
            /\ (mo_pc = "check" /\ mo_pc' # "check") =>
                  /\ mo_pc' = "acquire"
                  /\ current_month' = month
                  /\ month # last_analysis_month
            /\ (mo_pc = "check" /\ month # last_analysis_month) => mo_pc' # "sleep"
            /\ (mo_pc = "analysis" /\ mo_pc' # "analysis") =>
                  /\ mo_pc' = "sleep"
                  /\ current_month # last_analysis_month
                  /\ last_analysis_month' = current_month
            /\ last_analysis_month' # last_analysis_month => mo_pc = "analysis"]_vars
    /\ []<>(program = "main" => last_analysis_month = month)

\* the analysis of a second month has been run
C23_Witness ==
    /\ program = "main" /\ mo_pc = "sleep"
    /\ month = 2 /\ last_analysis_month = 2

\* the classifier holds a fitted model
IsTrained(c) == c.trained /\ c.model # NotFitted

\* C24: once initialize has returned the classifier is Trained for good:
\* every retrain leaves it Trained with the persisted artifact equal to the
\* newly fitted one, and classify does not change it.
C24_TrainedForGood ==
    (program = "trainer" /\ rt_pc = "ready") =>
        /\ IsTrained(clf)
        /\ cl_out.call = "retrain" => pickles = PicklesOf(clf)
        /\ cl_out.call = "classify" => clf = cl_out.before

\* the same without the retrains: initialize that returns leaves a fitted
\* model, and classify changes nothing
C24_InitializeAndClassify ==
    (program = "trainer" /\ rt_pc = "ready" /\ training_collection = <<>>) =>
        /\ IsTrained(clf)
        /\ cl_out.call = "classify" => clf = cl_out.before

\* a retrain without any store or file fault that left a model that is not
\* fitted, and a classification after it
C24_Unfitted ==
    /\ program = "trainer" /\ rt_pc = "ready"
    /\ clf.model = NotFitted
    /\ cl_out.call = "classify" /\ cl_out.category = Fallback

\* C25: the human is asked about a message if and only if the message
\* passes the filter, its resolved category is "Miscellaneous" and its
\* amount is strictly greater than 2000; never for a filtered message, for
\* another category, or for an amount of 2000 or less.
C25_AskedIffHighValueFallback ==
    (program = "escalate" /\ cl_out.applied) =>
        (cl_out.prompted <=>
            (~cl_in.filtered /\ cl_out.category = "Miscellaneous"
             /\ cl_in.amount > 2000 * 1000))

\* the human was asked about a message one hundredth above the threshold
C25_Witness ==
    /\ program = "escalate" /\ cl_out.applied
    /\ cl_out.prompted /\ cl_in.amount = 2000010

\* input() has returned and the loop body has gone on
PromptAnswered ==
    program = "script" /\ rt_pc = "prompt" /\ rt_pc' \in {"each", ScriptHandler}

\* what the claim calls for when the human has returned answer for message i
AnswerEffects(answer, i) ==
    /\ IF answer # ""
       THEN /\ training_collection' =
                  Append(training_collection,
                         [body |-> RawDoc(i).body, category |-> answer])
            /\ clf' = train_model(ExamplesOf(training_collection'))
            /\ pickles' = PicklesOf(clf')
       ELSE UNCHANGED <<training_collection, clf, pickles>>
    /\ \A d \in categorized_collection' \ categorized_collection :
          d._id = i /\ d.Category = (IF answer # "" THEN answer ELSE "Miscellaneous")
    /\ rt_pc' = "each" => i \in IdsOf(categorized_collection')

C27_DiscardedIffNoIndicatorOrPromotional ==
    (program = "filter" /\ cl_out.applied) =>
        LET discard == ~cl_in.indicator \/ cl_in.promotional
            discarded == ~cl_out.returned /\ ~cl_out.raised
        IN  /\ discarded <=> discard
            /\ discard => processed_collection = {} /\ categorized_collection = {}
            /\ cl_out.returned =>
                  /\ \E d \in processed_collection : d.Body = cl_in.body
                  /\ \E d \in categorized_collection : d.Body = cl_in.body

\* a message with a transaction keyword and a promotional one was discarded
C27_Witness ==
    /\ program = "filter" /\ cl_out.applied
    /\ cl_in.indicator /\ cl_in.promotional
    /\ ~cl_out.returned /\ ~cl_out.raised
    /\ processed_collection = {} /\ categorized_collection = {}

\* a step that runs process_new_data
PassTaken ==
    program = "main" /\ rt_pc = "acquire" /\ rt_pc' \in {"analysis", MonitorHandler}

\* C28: a pass adds the ids of the new manual entries to processed_ids and
\* stores no Transaction and no CategorizedTransaction for them; a pass
\* that finds new manual entries and no new message adds exactly those ids,
\* leaves both stores as they were and re-runs the aggregator.
C28_ManualOnlyMarkedAndAggregated ==
    [][PassTaken =>
          LET new_manual == manual_collection \ processed_ids
              new_raw == raw_collection \ processed_ids
          IN  /\ new_manual \subseteq processed_ids'
              /\ processed_ids' \ processed_ids \subseteq new_manual \cup new_raw
              /\ \A d \in processed_collection' \ processed_collection :
                    d._id \in new_raw
              /\ \A d \in categorized_collection' \ categorized_collection :
                    d._id \in new_raw
              /\ new_raw = {} =>
                    /\ processed_ids' = processed_ids \cup new_manual
                    /\ UNCHANGED <<processed_collection, categorized_collection>>
                    /\ combined_collection' =
                         IF new_manual # {}
                         THEN run_update_combined(combined_collection,
                                  categorized_collection, manual_collection)
                         ELSE combined_collection]_vars

\* a pass over manual entries alone is done: their ids are marked, the
\* category documents exist and nothing was extracted
C28_Witness ==
    /\ program = "main" /\ rt_pc = "analysis"
    /\ raw_collection = {} /\ manual_collection # {}
    /\ manual_collection \subseteq processed_ids
    /\ processed_collection = {} /\ categorized_collection = {}
    /\ combined_collection # {}

\* the categories the claim keeps out of budgeting
NotBudgeted == {"Healthcare", "Education", "Essentials", "Savings & Transfers"}

\* what a reader works out for a corpus from its budgeted rows alone, in
\* hundredths: 50 spent on Shopping on the only day left is 1500 a month,
\* recommended 1200, saving 300; in the corpus with Rent, two days are left
\* and Shopping is 750 a month, recommended 600, saving 150, Rent 37500
ExpectedOf(rows) ==
    IF \E k \in DOMAIN rows : rows[k].Category = "Rent"
    THEN [total |-> 15000, recommended |-> ("Shopping" :> 60000) @@ ("Rent" :> 3750000)]
    ELSE [total |-> 30000, recommended |-> ("Shopping" :> 120000)]

\* C29: no recommendation record is ever stored for an excluded category or
\* for the transfer category, and after a complete run the recommended
\* amounts and the total savings potential are what the rows of the other
\* categories alone give.
C29_ExcludedNeverBudgeted ==
    program = "budget" =>
        /\ \A d \in recommendation_collection : d.category \notin NotBudgeted
        /\ (mo_pc = "ran" /\ cl_out.ok) =>
             LET expected == ExpectedOf(cl_in.rows)
             IN  /\ {d.category : d \in recommendation_collection}
                        = DOMAIN expected.recommended
                 /\ \A d \in recommendation_collection :
                        d.recommended = expected.recommended[d.category]
                 /\ insights_collection[1].description = <<expected.total>>

\* a complete run over a corpus with transfer rows, with a Healthcare debit
\* among the stored transactions
C29_Witness ==
    /\ program = "budget" /\ mo_pc = "ran" /\ cl_out.ok
    /\ \E k \in DOMAIN cl_in.rows : cl_in.rows[k].Category = "Savings & Transfers"
    /\ \E d \in categorized_collection :
          d.Category = "Healthcare" /\ d.TransactionType = "debited"
    /\ recommendation_collection # {}

\* C30: whenever the monthly targets of the goals with timeframe > 0 sum to
\* 0 (there is no such goal, their targets are all 0, or they cancel), the
\* call returns and the allocation is empty.
C30_EmptyWhenTargetsSumToZero ==
    (program = "allocate" /\ cl_out.applied /\ DenominatorOf(cl_in.goals) = Zero) =>
        DOMAIN cl_out.allocated = {}

\* the call has returned an empty allocation for valid goals whose targets
\* are not 0 and sum to 0
C30_Witness ==
    /\ program = "allocate" /\ cl_out.applied
    /\ \E k \in ValidGoalsOf(cl_in.goals) : cl_in.goals[k].targetAmount # 0
    /\ DenominatorOf(cl_in.goals) = Zero
    /\ DOMAIN cl_out.allocated = {}

\* the same for valid goals whose targets are all 0
C30_ZeroTargets ==
    /\ program = "allocate" /\ cl_out.applied
    /\ ValidGoalsOf(cl_in.goals) # {}
    /\ \A k \in ValidGoalsOf(cl_in.goals) : cl_in.goals[k].targetAmount = 0
    /\ DOMAIN cl_out.allocated = {}

(***************************************************************************)
(* Properties of the insight list.                                         *)
(***************************************************************************)
\* the _id of the insights in the store, in their order
InsightIds == [k \in DOMAIN insights_collection |-> insights_collection[k]._id]

\* the goals that take part in the allocation
AllocatedGoals ==
    {k \in DOMAIN goals_collection :
        /\ goals_collection[k].goalName \notin {"Healthcare", "Education", "Essentials"}
        /\ goals_collection[k].timeframe > 0}

\* an allocated goal whose allocation is below its own monthly target
Underfunded ==
    LET allocated == allocate_savings_to_goals(
                         Rat(ExpectedOf(cl_in.rows).total, 100),
                         get_user_goals(goals_collection))
    IN  \E k \in AllocatedGoals :
           /\ goals_collection[k].goalName \in DOMAIN allocated
           /\ RatLess(allocated[goals_collection[k].goalName],
                      Rat(goals_collection[k].targetAmount,
                          goals_collection[k].timeframe))

GoalNamesDistinct ==
    \A j, k \in DOMAIN goals_collection :
        goals_collection[j].goalName = goals_collection[k].goalName => j = k

\* C31 as stated: the insights of a completed run are summary, allocated
\* and, exactly when an allocated goal has an allocation below its monthly
\* target, simulation and recommendations, in this order.
C31_InsightsInFixedOrder ==
    (program = "budget" /\ mo_pc = "ran" /\ cl_out.ok) =>
        InsightIds = <<"summary", "allocated">>
                     \o (IF Underfunded THEN <<"simulation", "recommendations">>
                         ELSE <<>>)

\* the same holds as long as no two goals share a name
C31_WithDistinctNames ==
    (program = "budget" /\ mo_pc = "ran" /\ cl_out.ok /\ GoalNamesDistinct) =>
        InsightIds = <<"summary", "allocated">>
                     \o (IF Underfunded THEN <<"simulation", "recommendations">>
                         ELSE <<>>)

\* a completed run with an underfunded goal and the four insights
C31_FourInsights ==
    /\ program = "budget" /\ mo_pc = "ran" /\ cl_out.ok
    /\ Underfunded
    /\ InsightIds = <<"summary", "allocated", "simulation", "recommendations">>

\* a completed run with an allocated goal that is not underfunded
C31_TwoInsights ==
    /\ program = "budget" /\ mo_pc = "ran" /\ cl_out.ok
    /\ AllocatedGoals # {} /\ ~Underfunded
    /\ InsightIds = <<"summary", "allocated">>

\* C32 as stated: when an ingestion pass has completed, after any failures
\* and restarts before it, the ids with a Transaction record are the ids
\* with a CategorizedTransaction record.
C32_RecordsPairedAfterPass ==
    (program = "main" /\ rt_pc = "analysis") =>
        IdsOf(processed_collection) = IdsOf(categorized_collection)

\* a pass has completed and left a Transaction without its
\* CategorizedTransaction, the id being in processed_ids
C32_OrphanIsMarked ==
    /\ program = "main" /\ rt_pc = "analysis"
    /\ \E i \in IdsOf(processed_collection) \ IdsOf(categorized_collection) :
          i \in processed_ids

\* every raw message in the store that passes the filter has its
\* CategorizedTransaction
BacklogIngested ==
    \A i \in raw_collection :
        FilteredOf[RawDoc(i).body] \/ i \in IdsOf(categorized_collection)

\* C33 as stated: the raw messages found in the store when the orchestrator
\* starts are eventually ingested, whether or not anything arrives later.
C33_BacklogEventuallyIngested == <>BacklogIngested

\* for an orchestrator that starts on an empty raw store every message is
\* ingested again and again
C33_ArrivalsIngested == []<>BacklogIngested

\* a message of the backlog was ingested by a pass that a later arrival
\* set off
C33_IngestedAfterArrival ==
    /\ program = "main" /\ last_sms_count > 1
    /\ 1 \in IdsOf(categorized_collection)

\* C34 as stated, for the loop of home_page.py: after a pass that an
\* exception ended, the messages that were pending are eventually ingested,
\* whether or not a new record arrives.
C34_FailedPassIsRetried ==
    (program = "home" /\ rt_pc = "backoff") ~> BacklogIngested

\* the same for the loop of main.py, which records the counts after the pass
C34_MainRetries ==
    (program = "main" /\ rt_pc = "backoff") ~> BacklogIngested

\* the loop of home_page.py sleeps after a failed pass with the count
\* recorded and a message left without its records
C34_CountAdvanced ==
    /\ program = "home" /\ rt_pc = "poll"
    /\ last_sms_count = Cardinality(raw_collection)
    /\ last_manual_count = Cardinality(manual_collection)
    /\ ~BacklogIngested

\* the retrain that has just returned did not complete: the model is not
\* fitted, or the files do not hold what is in memory
RetrainFailed ==
    /\ program = "trainer" /\ rt_pc = "ready" /\ cl_out.call = "retrain"
    /\ clf.model = NotFitted \/ pickles # PicklesOf(clf)

\* C35 as stated: a retrain that fails partway leaves the model, the
\* vectorizer and the label encoder in memory as they were, and after any
\* retrain the three come from one and the same fit.
C35_FailedRetrainKeepsTriple ==
    /\ RetrainFailed => clf = cl_out.before
    /\ (program = "trainer" /\ rt_pc = "ready" /\ cl_out.call = "retrain") =>
           clf.vectorizer = clf.model /\ clf.label_encoder = clf.model

\* a retrain whose model fit failed: the vectorizer and the label encoder
\* are the re-fitted ones, the model is a new object that is not fitted
C35_MixedTriple ==
    /\ RetrainFailed
    /\ cl_out.before.model # NotFitted
    /\ clf.model = NotFitted
    /\ clf.vectorizer # cl_out.before.vectorizer
    /\ clf.label_encoder = clf.vectorizer

\* a retrain whose first dump failed: memory holds the new fit, the files
\* the old one
C35_NewFitInMemory ==
    /\ RetrainFailed
    /\ clf.model # NotFitted /\ clf.model # cl_out.before.model
    /\ clf.vectorizer = clf.model /\ clf.label_encoder = clf.model
    /\ pickles.model # <<clf.model>>

\* C36: when the analysis of the periodic loop returns, True or False, the
\* month it was run for is recorded as analysed, and the loop does not head
\* for another analysis while the calendar shows the month of the last one.
C36_MonthRecordedEitherWay ==
    [][program = "periodic" =>
          /\ (mo_pc = "acquire" /\ mo_pc' = "sleep") =>
                /\ cl_out'.applied /\ cl_out'.month = current_month
                /\ last_analysis_month' = cl_out'.month
          /\ (cl_out.applied /\ cl_out.month = month /\ mo_pc # "acquire") =>
                mo_pc' # "acquire"]_vars

\* the analysis of the second month returned False and stored no insight,
\* its month is recorded, and the loop has slept and is back at its check
\* in that month
C36_Witness ==
    /\ program = "periodic" /\ mo_pc = "check"
    /\ cl_out.applied /\ ~cl_out.ok
    /\ cl_out.month = month /\ last_analysis_month = month
    /\ insights_collection = <<>>
    /\ month = 2

\* the lines of the "allocated" insight; without a goal to allocate to, the
\* insight holds the text "No goals set" and no line
AllocatedLines ==
    IF AllocatedGoals = {} THEN {}
    ELSE {insights_collection[2].description[k] :
             k \in DOMAIN insights_collection[2].description}

\* the share of goal k when only the goals of AllocatedGoals count, in
\* hundredths
ShareAmongAllocated(k) ==
    LET target == [j \in AllocatedGoals |->
                      Rat(goals_collection[j].targetAmount,
                          goals_collection[j].timeframe)]
    IN  Hundredths(RatMul(RatDiv(target[k], SumOver(AllocatedGoals, target)),
                          Rat(ExpectedOf(cl_in.rows).total, 100)))

\* C37: after a complete run no allocation is listed for a goal named after
\* an excluded category, every other goal with timeframe > 0 has its name
\* listed, and every listed amount is a share with a denominator made of
\* those other goals alone.
C37_ExcludedGoalsDropped ==
    (program = "budget" /\ mo_pc = "ran" /\ cl_out.ok) =>
        /\ \A line \in AllocatedLines :
              /\ line.goal \notin {"Healthcare", "Education", "Essentials"}
              /\ \E k \in AllocatedGoals :
                    /\ goals_collection[k].goalName = line.goal
                    /\ line.amount = ShareAmongAllocated(k)
        /\ \A k \in AllocatedGoals :
              \E line \in AllocatedLines : line.goal = goals_collection[k].goalName

\* a complete run with a Healthcare goal and a Trip goal: the Trip goal is
\* allocated the whole savings potential
C37_Witness ==
    /\ program = "budget" /\ mo_pc = "ran" /\ cl_out.ok
    /\ \E k \in DOMAIN goals_collection : goals_collection[k].goalName = "Healthcare"
    /\ AllocatedLines = {[goal |-> "Trip", amount |-> ExpectedOf(cl_in.rows).total]}

====
